---- MODULE Spec2Model ----
(***************************************************************************)
(* Normalization and batched indexing pipeline of the tire search backend. *)
(*                                                                         *)
(*   scripts/load_all_tire_data.py  the multi-brand loader: schema table,  *)
(*                                  row normalizer, derived fields, ids,   *)
(*                                  batching and the load run (main)       *)
(*   app/main.py                    the task client of the HTTP service:   *)
(*                                  get_task_uid, wait_for_task_completion *)
(*                                  and POST /index/products               *)
(*                                                                         *)
(* Text is modelled as a sequence of one-character strings, so that        *)
(* strip, upper, lower, substring search and the regular expressions of    *)
(* the source are computed character by character.                         *)
(***************************************************************************)
EXTENDS Integers, Sequences, FiniteSets, TLC

(***************************************************************************)
(* Python values                                                           *)
(***************************************************************************)
\* Python's None: a tuple that is no text (its element is not one character).
None == <<"<None>">>

\* bool(v) for v a text or None
Truthy(v) == v # None /\ v # << >>

UpperChars == <<"A", "B", "C", "D", "E", "F", "G", "H", "I", "J", "K", "L", "M",
                "N", "O", "P", "Q", "R", "S", "T", "U", "V", "W", "X", "Y", "Z">>
LowerChars == <<"a", "b", "c", "d", "e", "f", "g", "h", "i", "j", "k", "l", "m",
                "n", "o", "p", "q", "r", "s", "t", "u", "v", "w", "x", "y", "z">>
DigitChars == {"0", "1", "2", "3", "4", "5", "6", "7", "8", "9"}

IsUpper(c) == \E i \in DOMAIN UpperChars : UpperChars[i] = c
IsLower(c) == \E i \in DOMAIN LowerChars : LowerChars[i] = c
IsAlpha(c) == IsUpper(c) \/ IsLower(c)
IsDigit(c) == c \in DigitChars
\* \w of the re module, on the characters of the model
IsWordChar(c) == IsAlpha(c) \/ IsDigit(c) \/ c = "_"
\* str.isspace, on the characters of the model
IsSpace(c) == c \in {" ", "\t"}

CharUpper(c) ==
    IF IsLower(c) THEN UpperChars[CHOOSE i \in DOMAIN LowerChars : LowerChars[i] = c]
    ELSE c
CharLower(c) ==
    IF IsUpper(c) THEN LowerChars[CHOOSE i \in DOMAIN UpperChars : UpperChars[i] = c]
    ELSE c

\* str.upper / str.lower
Upper(s) == [i \in 1..Len(s) |-> CharUpper(s[i])]
Lower(s) == [i \in 1..Len(s) |-> CharLower(s[i])]

\* str.strip
Strip(s) ==
    IF \A i \in 1..Len(s) : IsSpace(s[i]) THEN << >>
    ELSE LET a == CHOOSE i \in 1..Len(s) :
                     ~IsSpace(s[i]) /\ \A j \in 1..(i - 1) : IsSpace(s[j])
             b == CHOOSE i \in 1..Len(s) :
                     ~IsSpace(s[i]) /\ \A j \in (i + 1)..Len(s) : IsSpace(s[j])
         IN  SubSeq(s, a, b)

\* sub occurs in s at position i
StartsAt(sub, s, i) ==
    /\ i + Len(sub) - 1 <= Len(s)
    /\ \A k \in 1..Len(sub) : s[i + k - 1] = sub[k]

\* `sub in s'
Contains(sub, s) == \E i \in 1..(Len(s) + 1) : StartsAt(sub, s, i)

\* s.replace(old, new) for a non-empty old: leftmost non-overlapping occurrences
RECURSIVE ReplaceFrom(_, _, _, _)
ReplaceFrom(s, old, new, i) ==
    IF i > Len(s) THEN << >>
    ELSE IF StartsAt(old, s, i) THEN new \o ReplaceFrom(s, old, new, i + Len(old))
    ELSE <<s[i]>> \o ReplaceFrom(s, old, new, i + 1)

Replace(s, old, new) == ReplaceFrom(s, old, new, 1)

\* s.endswith(c) for one character c
EndsWith(s, c) == Len(s) > 0 /\ s[Len(s)] = c

\* sep.join(parts)
RECURSIVE Join(_, _)
Join(parts, sep) ==
    IF Len(parts) = 0 THEN << >>
    ELSE IF Len(parts) = 1 THEN parts[1]
    ELSE parts[1] \o sep \o Join(Tail(parts), sep)

\* the elements of a sequence
Range(seq) == {seq[i] : i \in DOMAIN seq}

(***************************************************************************)
(* Regular expressions of the loader                                       *)
(***************************************************************************)
\* last index of the maximal run of letters / digits / upper-case letters at i
AlphaRunEnd(t, i) ==
    CHOOSE e \in i..Len(t) :
        (\A k \in i..e : IsAlpha(t[k])) /\ (e = Len(t) \/ ~IsAlpha(t[e + 1]))
DigitRunEnd(t, i) ==
    CHOOSE e \in i..Len(t) :
        (\A k \in i..e : IsDigit(t[k])) /\ (e = Len(t) \/ ~IsDigit(t[e + 1]))
UpperRunEnd(t, i) ==
    CHOOSE e \in i..Len(t) :
        (\A k \in i..e : IsUpper(t[k])) /\ (e = Len(t) \/ ~IsUpper(t[e + 1]))

\* re.findall(r'\b[A-Za-z]{3,}\b', t): the runs of at least three letters that
\* have no word character on either side
RECURSIVE FindWordsFrom(_, _)
FindWordsFrom(t, i) ==
    IF i > Len(t) THEN << >>
    ELSE IF IsAlpha(t[i]) /\ (i = 1 \/ ~IsWordChar(t[i - 1]))
         THEN LET e == AlphaRunEnd(t, i)
              IN  IF e - i + 1 >= 3 /\ (e = Len(t) \/ ~IsWordChar(t[e + 1]))
                  THEN <<SubSeq(t, i, e)>> \o FindWordsFrom(t, e + 1)
                  ELSE FindWordsFrom(t, i + 1)
         ELSE FindWordsFrom(t, i + 1)

FindWords(t) == FindWordsFrom(t, 1)

\* end of a match of \d+(?:\.\d+)? that starts at the digit i
DecimalEnd(t, i) ==
    LET e == DigitRunEnd(t, i)
    IN  IF e + 2 <= Len(t) /\ t[e + 1] = "." /\ IsDigit(t[e + 2])
        THEN DigitRunEnd(t, e + 2)
        ELSE e

\* re.findall(r'\d+(?:\.\d+)?|[A-Z]+', t)
RECURSIVE FindSizePartsFrom(_, _)
FindSizePartsFrom(t, i) ==
    IF i > Len(t) THEN << >>
    ELSE IF IsDigit(t[i])
         THEN LET e == DecimalEnd(t, i)
              IN  <<SubSeq(t, i, e)>> \o FindSizePartsFrom(t, e + 1)
    ELSE IF IsUpper(t[i])
         THEN LET e == UpperRunEnd(t, i)
              IN  <<SubSeq(t, i, e)>> \o FindSizePartsFrom(t, e + 1)
    ELSE FindSizePartsFrom(t, i + 1)

FindSizeParts(t) == FindSizePartsFrom(t, 1)

\* re.search(r'(\d+(?:/\d+)?)', t): group 1 of the first match, or None
SearchLoad(t) ==
    IF \A i \in 1..Len(t) : ~IsDigit(t[i]) THEN None
    ELSE LET i == CHOOSE k \in 1..Len(t) :
                     IsDigit(t[k]) /\ \A j \in 1..(k - 1) : ~IsDigit(t[j])
             e == DigitRunEnd(t, i)
         IN  IF e + 2 <= Len(t) /\ t[e + 1] = "/" /\ IsDigit(t[e + 2])
             THEN SubSeq(t, i, DigitRunEnd(t, e + 2))
             ELSE SubSeq(t, i, e)

\* re.search(r'([A-Z]+)', t): group 1 of the first match, or None
SearchSpeed(t) ==
    IF \A i \in 1..Len(t) : ~IsUpper(t[i]) THEN None
    ELSE LET i == CHOOSE k \in 1..Len(t) :
                     IsUpper(t[k]) /\ \A j \in 1..(k - 1) : ~IsUpper(t[j])
         IN  SubSeq(t, i, UpperRunEnd(t, i))

(***************************************************************************)
(* Schema registry: scripts/load_all_tire_data.py, DATA_FILES              *)
(***************************************************************************)
Brands == <<"Apollo", "CEAT", "MRF", "Eurogrip">>

\* the characters of a brand name
BrandChars ==
    [ Apollo   |-> <<"A", "p", "o", "l", "l", "o">>,
      CEAT     |-> <<"C", "E", "A", "T">>,
      MRF      |-> <<"M", "R", "F">>,
      Eurogrip |-> <<"E", "u", "r", "o", "g", "r", "i", "p">> ]

\* a canonical field that has no column in a source (None in the table)
NoColumn == "<no column>"

OptionalFields ==
    {"group", "size", "ply_rating", "pattern_model", "construction_type",
     "load_index", "speed_rating", "series", "special_features"}

MappedFields == OptionalFields \cup {"material", "record_type", "mpn"}

DATA_FILES ==
    [ Apollo |->
        [ file |-> "data/Apollo-parsed.tsv",
          columns |->
            [ group |-> "Group", material |-> "Material",
              record_type |-> "Record Type", mpn |-> "MPN", size |-> "Size",
              ply_rating |-> "Ply Rating", pattern_model |-> "Pattern/Model",
              construction_type |-> "Construction Type",
              load_index |-> "Load Index", speed_rating |-> "Speed Rating",
              series |-> "Series", special_features |-> "Special Features" ] ],
      CEAT |->
        [ file |-> "data/CEAT-parsed.tsv",
          columns |->
            [ group |-> "Mat.Grp.Description", material |-> "Material Description",
              record_type |-> "rec_type", mpn |-> "MPN", size |-> "Size",
              ply_rating |-> "Ply Rating", pattern_model |-> "Model / Brand",
              construction_type |-> "Tire Type",
              load_index |-> "load index and speed rating",
              speed_rating |-> "load index and speed rating",
              series |-> NoColumn, special_features |-> "Other" ] ],
      MRF |->
        [ file |-> "data/MRF-Parsed.tsv",
          columns |->
            [ group |-> "CATEGORY", material |-> "OE PRODUCT NAME",
              record_type |-> NoColumn, mpn |-> "MPN", size |-> "Tire Size",
              ply_rating |-> "Ply Rating", pattern_model |-> "Product Name",
              construction_type |-> "Construction",
              load_index |-> "Load Index", speed_rating |-> "Speed Rating",
              series |-> NoColumn, special_features |-> "Extras" ] ],
      Eurogrip |->
        [ file |-> "data/Eurogrip.tsv",
          columns |->
            [ group |-> "Group", material |-> "Product Name",
              record_type |-> "Type", mpn |-> "Tyre Code", size |-> "Tire Size",
              ply_rating |-> "Ply Rating", pattern_model |-> "Product Name",
              construction_type |-> "Construction",
              load_index |-> "Load Index", speed_rating |-> "Speed Rating",
              series |-> NoColumn, special_features |-> "Extras" ] ] ]

\* the fallback column read by the MRF and Eurogrip quirks
CompleteTyreCode == "Complete Tyre Code"

(***************************************************************************)
(* Derived fields: extract_tags, compute_category, compute_title           *)
(***************************************************************************)
\* tags[:10]
TagLimit == 10

\* the first occurrence of every element, in order
RECURSIVE Dedupe(_)
Dedupe(seq) ==
    IF Len(seq) = 0 THEN << >>
    ELSE LET init == Dedupe(SubSeq(seq, 1, Len(seq) - 1))
             last == seq[Len(seq)]
         IN  IF last \in Range(init) THEN init ELSE Append(init, last)

\* list(set(items)): every element once, in the iteration order of a set of
\* str.  That order is fixed by the string hashes, which CPython salts once
\* per process (hash_seed); it is modelled as the rotation of the order of
\* first occurrence by the seed.
ListOfSet(items, hash_seed) ==
    LET d == Dedupe(items)
        n == Len(d)
    IN  [i \in 1..n |-> d[((i - 1 + hash_seed) % n) + 1]]

common_words ==
    { <<"t", "h", "e">>, <<"a", "n", "d">>, <<"o", "r">>, <<"f", "o", "r">>,
      <<"w", "i", "t", "h">>, <<"f", "r", "o", "m">>,
      <<"a", "p", "o", "l", "l", "o">>, <<"c", "e", "a", "t">>, <<"m", "r", "f">>,
      <<"e", "u", "r", "o", "g", "r", "i", "p">>, <<"t", "v", "s">> }

\* [f(x) for x in seq]
LowerAll(seq) == [i \in 1..Len(seq) |-> Lower(seq[i])]

\* the list `tags' of extract_tags before duplicates and common words go
RawTags(material, pattern_model, size, brand) ==
    (IF Truthy(material) THEN LowerAll(FindWords(Upper(material))) ELSE << >>)
    \o (IF Truthy(pattern_model) THEN LowerAll(FindWords(Upper(pattern_model)))
        ELSE << >>)
    \o (IF Truthy(size)
        THEN LowerAll(SelectSeq(FindSizeParts(Upper(size)), LAMBDA p : Len(p) >= 2))
        ELSE << >>)
    \o (IF Truthy(brand) THEN <<Lower(brand)>> ELSE << >>)

\* the filter on the length alone, the common words left in
KeepLongTag(tag) == Len(tag) >= 2

KeepTag(tag) == tag \notin common_words /\ Len(tag) >= 2

\* list(set(tags)) without the cap
UncappedTags(material, pattern_model, size, brand, hash_seed) ==
    ListOfSet(SelectSeq(RawTags(material, pattern_model, size, brand), KeepTag),
              hash_seed)

\* the cap set to three tags
ThreeTags(material, pattern_model, size, brand, hash_seed) ==
    LET tags == ListOfSet(SelectSeq(RawTags(material, pattern_model, size, brand),
                                    KeepTag), hash_seed)
    IN  SubSeq(tags, 1, IF Len(tags) < 3 THEN Len(tags) ELSE 3)

extract_tags(material, pattern_model, size, brand, hash_seed) ==
    LET tags == ListOfSet(SelectSeq(RawTags(material, pattern_model, size, brand),
                                    KeepTag), hash_seed)
    IN  SubSeq(tags, 1, IF Len(tags) < TagLimit THEN Len(tags) ELSE TagLimit)

compute_category(group, record_type, brand) ==
    LET p1 == IF Truthy(brand) THEN <<brand>> ELSE << >>
        p2 == IF Truthy(group) /\ Truthy(Strip(group)) THEN <<Strip(group)>> ELSE << >>
        p3 == IF Truthy(record_type) /\ Truthy(Strip(record_type))
              THEN IF EndsWith(Lower(record_type), "s") THEN <<record_type>>
                   ELSE <<record_type \o <<"s">> >>
              ELSE IF Truthy(group) THEN << <<"P", "r", "o", "d", "u", "c", "t", "s">> >>
              ELSE << <<"A", "u", "t", "o", "m", "o", "t", "i", "v", "e", " ",
                        "P", "a", "r", "t", "s">> >>
    IN  Join(p1 \o p2 \o p3, <<" ">>)

\* compute_category(group, record_type) of scripts/load_apollo_data.py
apollo_compute_category(group, record_type) ==
    IF Truthy(group) /\ Truthy(record_type)
    THEN group \o <<" ">> \o record_type \o <<"s">>
    ELSE IF Truthy(record_type) THEN record_type \o <<"s">>
    ELSE IF Truthy(group) THEN group
    ELSE <<"A", "u", "t", "o", "m", "o", "t", "i", "v", "e", " ",
           "P", "a", "r", "t", "s">>

\* the title without the fallbacks of lines 176-178
TitleNoFallback(material, size, pattern_model) ==
    LET p1 == IF Truthy(size) /\ Truthy(Strip(size)) THEN <<Strip(size)>> ELSE << >>
        p2 == IF Truthy(pattern_model) /\ Truthy(Strip(pattern_model))
                 /\ pattern_model # material
              THEN <<Strip(pattern_model)>>
              ELSE IF Truthy(material) /\ Truthy(Strip(material))
              THEN IF Truthy(size) /\ Contains(size, material)
                   THEN <<Strip(Replace(material, size, << >>))>>
                   ELSE <<Strip(material)>>
              ELSE << >>
    IN  Strip(Join(p1 \o p2, <<" ">>))

\* the title with the material as it is, its size not taken out
TitleKeepsSize(material, size, pattern_model) ==
    LET p1 == IF Truthy(size) /\ Truthy(Strip(size)) THEN <<Strip(size)>> ELSE << >>
        p2 == IF Truthy(pattern_model) /\ Truthy(Strip(pattern_model))
                 /\ pattern_model # material
              THEN <<Strip(pattern_model)>>
              ELSE IF Truthy(material) /\ Truthy(Strip(material))
              THEN <<Strip(material)>>
              ELSE << >>
        title == Strip(Join(p1 \o p2, <<" ">>))
    IN  IF Truthy(title) THEN title
        ELSE IF Truthy(material) THEN material
        ELSE <<"T", "i", "r", "e", " ", "P", "r", "o", "d", "u", "c", "t">>

compute_title(material, size, pattern_model) ==
    LET p1 == IF Truthy(size) /\ Truthy(Strip(size)) THEN <<Strip(size)>> ELSE << >>
        p2 == IF Truthy(pattern_model) /\ Truthy(Strip(pattern_model))
                 /\ pattern_model # material
              THEN <<Strip(pattern_model)>>
              ELSE IF Truthy(material) /\ Truthy(Strip(material))
              THEN IF Truthy(size) /\ Contains(size, material)
                   THEN <<Strip(Replace(material, size, << >>))>>
                   ELSE <<Strip(material)>>
              ELSE << >>
        title == Strip(Join(p1 \o p2, <<" ">>))
    IN  IF Truthy(title) THEN title
        ELSE IF Truthy(material) THEN material
        ELSE <<"T", "i", "r", "e", " ", "P", "r", "o", "d", "u", "c", "t">>

\* returns <<load_index, speed_rating>>
parse_load_speed_combined(combined_field) ==
    IF ~Truthy(combined_field) \/ ~Truthy(Strip(combined_field)) THEN <<None, None>>
    ELSE <<SearchLoad(combined_field), SearchSpeed(combined_field)>>

(***************************************************************************)
(* Row normalizer: parse_brand_data                                        *)
(***************************************************************************)
\* A raw row maps the columns of the file's header to text; a column the
\* line is too short for holds None (the restval of csv.DictReader).

\* row.get(column, '')
RowGet(row, column) == IF column \in DOMAIN row THEN row[column] ELSE << >>

\* row.get(column_mapping.get(field, ''), '').strip() if column_mapping.get(field)
\* else None
MappedField(row, column_mapping, field) ==
    IF column_mapping[field] = NoColumn THEN None
    ELSE Strip(RowGet(row, column_mapping[field]))

\* None.strip() raises AttributeError: some column that lines 212-223 read is None
ExtractRaises(row, column_mapping) ==
    \E field \in MappedFields :
        /\ column_mapping[field] # NoColumn
        /\ RowGet(row, column_mapping[field]) = None

\* the value kept as it is
KeepValue(value) == value

\* lines 249-250
clean_empty(value) == IF Truthy(value) /\ Truthy(Strip(value)) THEN value ELSE None

\* the id of the single-source loader: the mpn alone
MpnAsId(brand, mpn) == mpn

\* unique_id = f"{brand.upper()}_{mpn}"
UniqueId(brand, mpn) == Upper(BrandChars[brand]) \o <<"_">> \o mpn

\* the check with the material left out
MissingMpn(mpn, material) == ~Truthy(mpn)

\* lines 226-227: `if not mpn or not material: continue'
MissingEssential(mpn, material) == ~Truthy(mpn) \/ ~Truthy(material)

\* The body of the loop over the rows, lines 210-295, for one row.  The result
\* says whether a product was appended (emitted), whether the row raised
\* (caught at line 293) and the product.
ParseRow(brand, row, column_mapping, hash_seed) ==
    LET F(field) == MappedField(row, column_mapping, field)
        mpn == F("mpn")
        material0 == F("material")
        load0 == F("load_index")
        speed0 == F("speed_rating")
        skipped == [emitted |-> FALSE, raised |-> FALSE, product |-> None]
        failed == [emitted |-> FALSE, raised |-> TRUE, product |-> None]
    IN  IF ExtractRaises(row, column_mapping) THEN failed
        ELSE IF MissingEssential(mpn, material0) THEN skipped
        ELSE IF brand \in {"MRF", "Eurogrip"} /\ RowGet(row, CompleteTyreCode) = None
        THEN failed
        ELSE
        LET code == Strip(RowGet(row, CompleteTyreCode))
            ceat == brand = "CEAT" /\ Truthy(load0) /\ load0 = speed0
            parsed == parse_load_speed_combined(load0)
            material ==
                IF brand = "MRF" /\ Truthy(code) /\ ~Truthy(material0) THEN code
                ELSE IF brand = "Eurogrip" /\ Truthy(code)
                        /\ (~Truthy(material0) \/ Len(code) > Len(material0))
                THEN code
                ELSE material0
            group == clean_empty(F("group"))
            record_type == IF Truthy(clean_empty(F("record_type")))
                           THEN clean_empty(F("record_type"))
                           ELSE <<"T", "y", "r", "e">>
            size == clean_empty(F("size"))
            pattern_model == clean_empty(F("pattern_model"))
        IN  [ emitted |-> TRUE, raised |-> FALSE,
              product |->
                [ id |-> UniqueId(brand, mpn),
                  group |-> group,
                  material |-> material,
                  record_type |-> record_type,
                  mpn |-> mpn,
                  size |-> size,
                  ply_rating |-> clean_empty(F("ply_rating")),
                  pattern_model |-> pattern_model,
                  construction_type |-> clean_empty(F("construction_type")),
                  load_index |-> clean_empty(IF ceat THEN parsed[1] ELSE load0),
                  speed_rating |-> clean_empty(IF ceat THEN parsed[2] ELSE speed0),
                  series |-> clean_empty(F("series")),
                  special_features |-> clean_empty(F("special_features")),
                  title |-> compute_title(material, size, pattern_model),
                  brand |-> BrandChars[brand],
                  category |-> compute_category(group, record_type, BrandChars[brand]),
                  tags |-> extract_tags(material, pattern_model, size,
                                        BrandChars[brand], hash_seed) ] ]

\* scripts/load_apollo_data.py, the loader of the Apollo file alone.
\* lines 57-58 of load_apollo_data.py
apollo_common_words ==
    { <<"t", "h", "e">>, <<"a", "n", "d">>, <<"o", "r">>, <<"f", "o", "r">>,
      <<"w", "i", "t", "h">>, <<"f", "r", "o", "m">>,
      <<"a", "p", "o", "l", "l", "o">> }

\* extract_tags(material, pattern_model, size) of load_apollo_data.py: the
\* same three sources of tags, no brand tag, its own common words
apollo_extract_tags(material, pattern_model, size, hash_seed) ==
    LET tags == ListOfSet(SelectSeq(RawTags(material, pattern_model, size, None),
                                    LAMBDA tag : tag \notin apollo_common_words
                                                 /\ Len(tag) >= 2),
                          hash_seed)
    IN  SubSeq(tags, 1, IF Len(tags) < TagLimit THEN Len(tags) ELSE TagLimit)

\* compute_title(material, size, pattern_model) of load_apollo_data.py
apollo_compute_title(material, size, pattern_model) ==
    LET p1 == IF Truthy(size) THEN <<size>> ELSE << >>
        p2 == IF Truthy(pattern_model) /\ Truthy(Strip(pattern_model))
              THEN <<pattern_model>>
              ELSE IF Truthy(material)
              THEN IF Truthy(size) /\ Contains(size, material)
                   THEN <<Strip(Replace(material, size, << >>))>>
                   ELSE <<material>>
              ELSE << >>
        title == Strip(Join(p1 \o p2, <<" ">>))
    IN  IF Truthy(title) THEN title
        ELSE IF Truthy(material) THEN material
        ELSE <<"A", "p", "o", "l", "l", "o", " ", "P", "r", "o", "d", "u", "c", "t">>

\* the columns parse_apollo_data reads, by the key of the product
ApolloColumns == DATA_FILES["Apollo"].columns

\* `value or None'
OrNone(value) == IF Truthy(value) THEN value ELSE None

\* the body of the loop of parse_apollo_data for one row, lines 101-148
ParseApolloRow(row, hash_seed) ==
    LET F(field) == Strip(RowGet(row, ApolloColumns[field]))
        skipped == [emitted |-> FALSE, raised |-> FALSE, product |-> None]
        failed == [emitted |-> FALSE, raised |-> TRUE, product |-> None]
    IN  IF \E field \in MappedFields : RowGet(row, ApolloColumns[field]) = None
        THEN failed
        ELSE IF ~Truthy(F("mpn")) \/ ~Truthy(F("material")) THEN skipped
        ELSE [ emitted |-> TRUE, raised |-> FALSE,
               product |->
                 [ id |-> F("mpn"),
                   group |-> OrNone(F("group")),
                   material |-> F("material"),
                   record_type |-> OrNone(F("record_type")),
                   mpn |-> F("mpn"),
                   size |-> OrNone(F("size")),
                   ply_rating |-> OrNone(F("ply_rating")),
                   pattern_model |-> OrNone(F("pattern_model")),
                   construction_type |-> OrNone(F("construction_type")),
                   load_index |-> OrNone(F("load_index")),
                   speed_rating |-> OrNone(F("speed_rating")),
                   series |-> OrNone(F("series")),
                   special_features |-> OrNone(F("special_features")),
                   title |-> apollo_compute_title(F("material"), F("size"),
                                                  F("pattern_model")),
                   brand |-> <<"A", "p", "o", "l", "l", "o">>,
                   category |-> apollo_compute_category(F("group"), F("record_type")),
                   tags |-> apollo_extract_tags(F("material"), F("pattern_model"),
                                                F("size"), hash_seed) ] ]

\* parse_apollo_data(file_path) on a file that exists (main looks before)
RECURSIVE parse_apollo_data(_, _)
parse_apollo_data(rows, hash_seed) ==
    IF Len(rows) = 0 THEN << >>
    ELSE LET init == parse_apollo_data(SubSeq(rows, 1, Len(rows) - 1), hash_seed)
             r == ParseApolloRow(rows[Len(rows)], hash_seed)
         IN  IF r.emitted THEN Append(init, r.product) ELSE init

\* A source file: whether os.path.exists finds it, whether it can be opened
\* and decoded, and its data rows.
MissingFile == [exists |-> FALSE, readable |-> FALSE, rows |-> << >>]
FileOf(rows) == [exists |-> TRUE, readable |-> TRUE, rows |-> rows]
UnreadableFile == [exists |-> TRUE, readable |-> FALSE, rows |-> << >>]

\* line 205: open(file_path, 'r', encoding='utf-8') or the reading of the file
\* raises (no permission, a directory, bytes that are not UTF-8); nothing in
\* parse_brand_data catches it
OpenRaises(file) == file.exists /\ ~file.readable

\* the try around the loop instead of inside it: the first row that raises
\* ends the parsing of the file
RECURSIVE ParseRowsUntilRaise(_, _, _, _)
ParseRowsUntilRaise(brand, rows, column_mapping, hash_seed) ==
    IF Len(rows) = 0 THEN << >>
    ELSE LET r == ParseRow(brand, rows[1], column_mapping, hash_seed)
         IN  IF r.raised THEN << >>
             ELSE (IF r.emitted THEN <<r.product>> ELSE << >>)
                  \o ParseRowsUntilRaise(brand, Tail(rows), column_mapping, hash_seed)

RECURSIVE ParseRows(_, _, _, _)
ParseRows(brand, rows, column_mapping, hash_seed) ==
    IF Len(rows) = 0 THEN << >>
    ELSE LET init == ParseRows(brand, SubSeq(rows, 1, Len(rows) - 1),
                               column_mapping, hash_seed)
             r == ParseRow(brand, rows[Len(rows)], column_mapping, hash_seed)
         IN  IF r.emitted THEN Append(init, r.product) ELSE init

\* parse_brand_data(brand, file_path, column_mapping): the list `products'
parse_brand_data(brand, file, column_mapping, hash_seed) ==
    IF ~file.exists THEN << >>
    ELSE ParseRows(brand, file.rows, column_mapping, hash_seed)

(***************************************************************************)
(* Batcher: the loop of main over range(0, len(products), BATCH_SIZE)      *)
(***************************************************************************)
Min(a, b) == IF a < b THEN a ELSE b

\* batch_end = min(batch_start + BATCH_SIZE, len(products))
BatchEnd(batch_start, n, size) == Min(batch_start + size, n)

\* batch_num = (batch_start // BATCH_SIZE) + 1
BatchNum(batch_start, size) == (batch_start \div size) + 1

\* products[batch_start:batch_end]
BatchSlice(prods, batch_start, size) ==
    SubSeq(prods, batch_start + 1, BatchEnd(batch_start, Len(prods), size))

\* the starts of the full batches only
FullBatchStarts(n, size) == {k \in 0..n : k + size <= n /\ k % size = 0}

\* the values of batch_start: range(0, n, size)
BatchStarts(n, size) == {k \in 0..n : k < n /\ k % size = 0}

\* the batches the loop submits, in order
Batches(prods, size) ==
    [k \in 1..Cardinality(BatchStarts(Len(prods), size)) |->
        BatchSlice(prods, (k - 1) * size, size)]

(***************************************************************************)
(* The load run: main of scripts/load_all_tire_data.py                     *)
(***************************************************************************)
\* bounds of the model: the data rows read in one run, over all sources; the
\* batch size; the hash seeds
MaxRunRows == 3
MaxBatchSize == 2
MaxSeed == 1

\* the settings that setup_tire_index_settings updates, in order
SETTINGS == <<"searchable_attributes", "filterable_attributes",
              "sortable_attributes", "ranking_rules", "synonyms">>

\* The rows a source file of a run is made of: a material, and the mpn Z9 or
\* X1; every other column of the brand is empty.
RunMpns == { <<"Z", "9">>, <<"X", "1">> }

BrandColumns(brand) ==
    {DATA_FILES[brand].columns[f] : f \in MappedFields} \ {NoColumn}

RunRow(brand, mpn) ==
    [c \in BrandColumns(brand) |->
        IF c = DATA_FILES[brand].columns["mpn"] THEN mpn
        ELSE IF c = DATA_FILES[brand].columns["material"]
        THEN <<"L", "O", "A", "D", " ", "S", "T", "A", "R">>
        ELSE << >>]

RunRows(brand) == {RunRow(brand, mpn) : mpn \in RunMpns}

SeqsUpTo(S, n) == UNION {[1..k -> S] : k \in 0..n}

\* the files of a brand that hold at most n data rows
RunFiles(brand, n) ==
    {MissingFile, UnreadableFile} \cup {FileOf(rows) : rows \in SeqsUpTo(RunRows(brand), n)}

VARIABLES
    pc,             \* the position of the run
    hash_seed,      \* the string-hash salt of the process
    BATCH_SIZE,     \* the configured batch size (100 in the source)
    client,         \* the AsyncClient: "none", "open" or "closed"
    closes,         \* how many times client.aclose() was called
    setting_idx,    \* the setting being updated
    brand_idx,      \* the source being processed
    file,           \* the file of that source, as read
    rows_read,      \* the data rows read so far in the run
    products,       \* the products parsed from it
    batch_start,    \* the loop variable of the batch loop
    tasks,          \* the tasks the engine accepted, in submission order
    last_status,    \* the final status of the task last waited for
    brand_stats,    \* brand -> count
    total_products,
    error,          \* an exception left main
    call,           \* a direct call of one function of the loader: its arguments
    ret,            \* and what it returned
    again,          \* the same call repeated, in a process of some hash seed
    meili_client,   \* app/main.py: the global client, "none", "open" or "closed"
    api_pc,         \* the position of the service and of the request being served
    caller,         \* what is being served
    task_info,      \* the task handle the engine returned for the submission
    outcome,        \* how the wait for the task ended
    response,       \* the answer to the caller
    settings,       \* POST /index/settings: the attributes the request gives
    attr_idx,       \* the attribute update_index_settings has come to
    engine_log,     \* the settings updates the engine accepted, in order
    task_results    \* the list `tasks' of update_index_settings

run_vars == <<pc, client, closes, setting_idx, brand_idx, file, rows_read, products,
              batch_start, tasks, last_status, brand_stats, total_products, error>>

fn_vars == <<call, ret, again>>

settings_vars == <<settings, attr_idx, engine_log, task_results>>

api_vars == <<meili_client, api_pc, caller, task_info, outcome, response, settings_vars>>

vars == <<hash_seed, BATCH_SIZE, run_vars, fn_vars, api_vars>>

\* no call is in progress / the call has not returned
NoCall == [fn |-> "none"]
Pending == [done |-> FALSE, value |-> << >>]
Returned(value) == [done |-> TRUE, value |-> value]
NotRepeated == [done |-> FALSE, hash_seed |-> 0, first_row |-> 1, value |-> << >>]

\* the state of main before its first statement
RunInit ==
    /\ pc = "start"
    /\ client = "none"
    /\ closes = 0
    /\ setting_idx = 1
    /\ brand_idx = 1
    /\ file = MissingFile
    /\ rows_read = 0
    /\ products = << >>
    /\ batch_start = 0
    /\ tasks = << >>
    /\ last_status = "none"
    /\ brand_stats = << >>
    /\ total_products = 0
    /\ error = FALSE

\* no handle / no answer yet
NoHandle == [type |-> "none"]
NoOutcome == [kind |-> "none"]
NoResponse == [kind |-> "none"]

\* the service is not running
ApiIdle ==
    /\ meili_client = "none"
    /\ api_pc = "idle"
    /\ caller = "none"
    /\ task_info = NoHandle
    /\ outcome = NoOutcome
    /\ response = NoResponse
    /\ settings = {}
    /\ attr_idx = 1
    /\ engine_log = << >>
    /\ task_results = << >>

Init ==
    /\ hash_seed \in 0..MaxSeed
    /\ BATCH_SIZE \in 1..MaxBatchSize
    /\ RunInit
    /\ call = NoCall
    /\ ret = Pending
    /\ again = NotRepeated
    /\ ApiIdle

\* the ids of a list of products
Ids(prods) == [i \in 1..Len(prods) |-> prods[i].id]

\* a task accepted by the engine: what was submitted, and how the wait for it
\* ended ("no": not waited for yet, "returned", "raised"); of the documents of
\* a batch the ids are kept.  The run never reads
\* the final status wait_for_task returns; last_status keeps the latest one.
Task(kind, name, batch_num, docs) ==
    [kind |-> kind, name |-> name, batch_num |-> batch_num, docs |-> docs,
     waited |-> "no"]

\* client.wait_for_task on the last submitted task returns with a final status
WaitReturns(status) ==
    /\ tasks' = [tasks EXCEPT ![Len(tasks)].waited = "returned"]
    /\ last_status' = status

\* client.wait_for_task raises (timeout, transport error)
WaitRaises ==
    /\ tasks' = [tasks EXCEPT ![Len(tasks)].waited = "raised"]
    /\ UNCHANGED last_status

\* `except Exception: raise' and `finally' of main: the exception leaves main
\* after the client is closed
Raise == pc' = "finally" /\ error' = TRUE

\* line 406
CreateClient ==
    /\ pc = "start"
    /\ client' = "open"
    /\ pc' = "health"
    /\ UNCHANGED <<fn_vars, api_vars, hash_seed, BATCH_SIZE, closes, setting_idx, brand_idx, file, rows_read,
                   products, batch_start, tasks, last_status, brand_stats,
                   total_products, error>>

\* the failed health check logged and passed over: the run goes on
HealthFailureIgnored ==
    /\ pc = "health"
    /\ pc' = "setting_submit"
    /\ \/ UNCHANGED error
       \/ error' = TRUE
    /\ UNCHANGED <<fn_vars, api_vars, hash_seed, BATCH_SIZE, client, closes, setting_idx, brand_idx,
                   file, rows_read, products, batch_start, tasks, last_status, brand_stats,
                   total_products>>

\* line 410
Health ==
    /\ pc = "health"
    /\ \/ pc' = "setting_submit" /\ UNCHANGED error
       \/ Raise
    /\ UNCHANGED <<fn_vars, api_vars, hash_seed, BATCH_SIZE, client, closes, setting_idx, brand_idx,
                   file, rows_read, products, batch_start, tasks, last_status, brand_stats,
                   total_products>>

\* task_info = await index.update_...(...)
SubmitSetting ==
    /\ pc = "setting_submit"
    /\ \/ /\ tasks' = Append(tasks, Task("settings", SETTINGS[setting_idx], 0, << >>))
          /\ pc' = "setting_await"
          /\ UNCHANGED error
       \/ Raise /\ UNCHANGED tasks
    /\ UNCHANGED last_status
    /\ UNCHANGED <<fn_vars, api_vars, hash_seed, BATCH_SIZE, client, closes, setting_idx, brand_idx,
                   file, rows_read, products, batch_start, brand_stats, total_products>>

\* await client.wait_for_task(task_info.task_uid, timeout_in_ms=30000)
AwaitSetting ==
    /\ pc = "setting_await"
    /\ \/ /\ \E status \in {"succeeded", "failed"} : WaitReturns(status)
          /\ IF setting_idx < Len(SETTINGS)
             THEN setting_idx' = setting_idx + 1 /\ pc' = "setting_submit"
             ELSE setting_idx' = setting_idx /\ pc' = "clear_submit"
          /\ UNCHANGED error
       \/ WaitRaises /\ Raise /\ UNCHANGED setting_idx
    /\ UNCHANGED <<fn_vars, api_vars, hash_seed, BATCH_SIZE, client, closes, brand_idx, file, rows_read, products,
                   batch_start, brand_stats, total_products>>

\* lines 418-423: task_info = await index.delete_all_documents(), in its own try
SubmitClear ==
    /\ pc = "clear_submit"
    /\ \/ /\ tasks' = Append(tasks, Task("delete", "delete_all_documents", 0, << >>))
          /\ pc' = "clear_await"
       \/ pc' = "parse" /\ UNCHANGED tasks
    /\ UNCHANGED last_status
    /\ UNCHANGED <<fn_vars, api_vars, hash_seed, BATCH_SIZE, client, closes, setting_idx, brand_idx,
                   file, rows_read, products, batch_start, brand_stats, total_products, error>>

\* the wait of the clear outside the inner try: its exception ends the run
AwaitClearUncaught ==
    /\ pc = "clear_await"
    /\ \/ /\ \E status \in {"succeeded", "failed"} : WaitReturns(status)
          /\ pc' = "parse"
          /\ UNCHANGED error
       \/ WaitRaises /\ Raise
    /\ UNCHANGED <<fn_vars, api_vars, hash_seed, BATCH_SIZE, client, closes, setting_idx,
                   brand_idx, file, rows_read, products, batch_start, brand_stats,
                   total_products>>

\* lines 420-423: the wait for the clear, inside the same try
AwaitClear ==
    /\ pc = "clear_await"
    /\ \/ \E status \in {"succeeded", "failed"} : WaitReturns(status)
       \/ WaitRaises
    /\ pc' = "parse"
    /\ UNCHANGED <<fn_vars, api_vars, hash_seed, BATCH_SIZE, client, closes, setting_idx, brand_idx,
                   file, rows_read, products, batch_start, brand_stats, total_products, error>>

\* the settings set up again for every source
NextBrandWithSettings ==
    IF brand_idx < Len(Brands)
    THEN brand_idx' = brand_idx + 1 /\ pc' = "setting_submit"
    ELSE brand_idx' = brand_idx /\ pc' = "stats"

\* the end of one pass of `for brand, config in DATA_FILES.items()'
NextBrand ==
    IF brand_idx < Len(Brands)
    THEN brand_idx' = brand_idx + 1 /\ pc' = "parse"
    ELSE brand_idx' = brand_idx /\ pc' = "stats"

\* lines 429-438: parse the file of the brand; no products: count 0, continue
ParseBrand ==
    /\ pc = "parse"
    /\ \E f \in RunFiles(Brands[brand_idx], MaxRunRows - rows_read) :
         LET brand == Brands[brand_idx]
             parsed == parse_brand_data(brand, f, DATA_FILES[brand].columns, hash_seed)
         IN  /\ file' = f
             /\ rows_read' = rows_read + Len(f.rows)
             /\ IF OpenRaises(f)
                THEN /\ Raise
                     /\ UNCHANGED <<products, batch_start, brand_stats, brand_idx>>
                ELSE /\ products' = parsed
                     /\ batch_start' = 0
                     /\ UNCHANGED error
                     /\ IF Len(parsed) = 0
                        THEN brand_stats' = (brand :> 0) @@ brand_stats /\ NextBrand
                        ELSE UNCHANGED <<brand_stats, brand_idx>> /\ pc' = "batch_submit"
    /\ UNCHANGED <<fn_vars, api_vars, hash_seed, BATCH_SIZE, client, closes, setting_idx, tasks,
                   last_status, total_products>>

\* the batch submitted and the next one started without the wait
SubmitBatchNoAwait ==
    /\ pc = "batch_submit"
    /\ tasks' = Append(tasks, Task("documents", Brands[brand_idx],
                                   BatchNum(batch_start, BATCH_SIZE),
                                   Ids(BatchSlice(products, batch_start, BATCH_SIZE))))
    /\ IF batch_start + BATCH_SIZE < Len(products)
       THEN batch_start' = batch_start + BATCH_SIZE /\ pc' = "batch_submit"
       ELSE batch_start' = batch_start /\ pc' = "batch_await"
    /\ UNCHANGED <<fn_vars, api_vars, hash_seed, BATCH_SIZE, client, closes, setting_idx,
                   brand_idx, file, rows_read, products, last_status, brand_stats,
                   total_products, error>>

\* index_products_batch, line 394: task_info = await index.add_documents(products)
SubmitBatch ==
    /\ pc = "batch_submit"
    /\ \/ /\ tasks' = Append(tasks, Task("documents", Brands[brand_idx],
                                         BatchNum(batch_start, BATCH_SIZE),
                                         Ids(BatchSlice(products, batch_start,
                                                        BATCH_SIZE))))
          /\ pc' = "batch_await"
          /\ UNCHANGED error
       \/ Raise /\ UNCHANGED tasks
    /\ UNCHANGED last_status
    /\ UNCHANGED <<fn_vars, api_vars, hash_seed, BATCH_SIZE, client, closes, setting_idx, brand_idx,
                   file, rows_read, products, batch_start, brand_stats, total_products>>

\* a batch whose wait raised submitted again
AwaitBatchRetry ==
    /\ pc = "batch_await"
    /\ \/ /\ \E status \in {"succeeded", "failed"} : WaitReturns(status)
          /\ batch_start' = batch_start + BATCH_SIZE
          /\ IF batch_start + BATCH_SIZE < Len(products)
             THEN /\ pc' = "batch_submit"
                  /\ UNCHANGED <<brand_idx, brand_stats, total_products>>
             ELSE /\ total_products' = total_products + Len(products)
                  /\ brand_stats' = (Brands[brand_idx] :> Len(products)) @@ brand_stats
                  /\ NextBrand
       \/ /\ WaitRaises
          /\ pc' = "batch_submit"
          /\ UNCHANGED <<batch_start, brand_idx, brand_stats, total_products>>
    /\ UNCHANGED <<fn_vars, api_vars, hash_seed, BATCH_SIZE, client, closes, setting_idx, file, rows_read, products, error>>

\* the products of a last batch whose task failed left out of the counts
AwaitBatchCountsSucceeded ==
    /\ pc = "batch_await"
    /\ \/ /\ \E status \in {"succeeded", "failed"} :
                /\ WaitReturns(status)
                /\ IF batch_start + BATCH_SIZE < Len(products)
                   THEN /\ pc' = "batch_submit"
                        /\ UNCHANGED <<brand_idx, brand_stats, total_products>>
                   ELSE LET count == IF status = "failed" THEN batch_start
                                     ELSE Len(products)
                        IN  /\ total_products' = total_products + count
                            /\ brand_stats' = (Brands[brand_idx] :> count) @@ brand_stats
                            /\ NextBrand
          /\ batch_start' = batch_start + BATCH_SIZE
          /\ UNCHANGED error
       \/ /\ WaitRaises /\ Raise
          /\ UNCHANGED <<batch_start, brand_idx, brand_stats, total_products>>
    /\ UNCHANGED <<fn_vars, api_vars, hash_seed, BATCH_SIZE, client, closes, setting_idx, file, rows_read, products>>

\* index_products_batch, line 397, then the next batch or lines 450-452
AwaitBatch ==
    /\ pc = "batch_await"
    /\ \/ /\ \E status \in {"succeeded", "failed"} : WaitReturns(status)
          /\ batch_start' = batch_start + BATCH_SIZE
          /\ IF batch_start + BATCH_SIZE < Len(products)
             THEN /\ pc' = "batch_submit"
                  /\ UNCHANGED <<brand_idx, brand_stats, total_products>>
             ELSE /\ total_products' = total_products + Len(products)
                  /\ brand_stats' = (Brands[brand_idx] :> Len(products)) @@ brand_stats
                  /\ NextBrand
          /\ UNCHANGED error
       \/ /\ WaitRaises /\ Raise
          /\ UNCHANGED <<batch_start, brand_idx, brand_stats, total_products>>
    /\ UNCHANGED <<fn_vars, api_vars, hash_seed, BATCH_SIZE, client, closes, setting_idx, file, rows_read, products>>

\* line 455 and the summary
GetStats ==
    /\ pc = "stats"
    /\ \/ pc' = "finally" /\ UNCHANGED error
       \/ Raise
    /\ UNCHANGED <<fn_vars, api_vars, hash_seed, BATCH_SIZE, client, closes, setting_idx, brand_idx,
                   file, rows_read, products, batch_start, tasks, last_status, brand_stats,
                   total_products>>

\* lines 477-478: await client.aclose()
Finally ==
    /\ pc = "finally"
    /\ client' = "closed"
    /\ closes' = closes + 1
    /\ pc' = IF error THEN "failed" ELSE "done"
    /\ UNCHANGED <<fn_vars, api_vars, hash_seed, BATCH_SIZE, setting_idx, brand_idx, file, rows_read, products,
                   batch_start, tasks, last_status, brand_stats, total_products,
                   error>>

(***************************************************************************)
(* Direct calls of the loader's functions                                  *)
(***************************************************************************)
\* bound of the model: the data rows of a file handed to parse_brand_data
MaxFileRows == 2

\* a column the header of the file does not have
Absent == <<"<absent>">>

\* The rows are written field by field and laid out in the columns of the
\* brand; a column that two fields share takes the first one's value.
FieldOrder ==
    <<"group", "material", "record_type", "mpn", "size", "ply_rating",
      "pattern_model", "construction_type", "load_index", "speed_rating",
      "series", "special_features">>

FirstField(brand, column) ==
    FieldOrder[CHOOSE i \in DOMAIN FieldOrder :
                  /\ DATA_FILES[brand].columns[FieldOrder[i]] = column
                  /\ \A j \in 1..(i - 1) :
                        DATA_FILES[brand].columns[FieldOrder[j]] # column]

RowOf(brand, fields) ==
    LET value(c) == IF c = CompleteTyreCode THEN fields.code
                    ELSE fields[FirstField(brand, c)]
        columns == {c \in BrandColumns(brand) \cup {CompleteTyreCode} :
                       value(c) # Absent}
    IN  [c \in columns |-> value(c)]

BaseFields ==
    [ group |-> << >>, material |-> <<"L", "O", "A", "D", " ", "S", "T", "A", "R">>,
      record_type |-> << >>, mpn |-> <<"X", "1">>, size |-> << >>,
      ply_rating |-> << >>, pattern_model |-> << >>, construction_type |-> << >>,
      load_index |-> << >>, speed_rating |-> << >>, series |-> << >>,
      special_features |-> << >>, code |-> Absent ]

\* "155/80 D12 8PR LOADSTAR SUPER XP - D", size "155/80 D12", model
\* "LOADSTAR SUPER XP", group SCV, no record type
ScenarioFields ==
    [BaseFields EXCEPT
        !.material = <<"1", "5", "5", "/", "8", "0", " ", "D", "1", "2", " ", "8",
                       "P", "R", " ", "L", "O", "A", "D", "S", "T", "A", "R", " ",
                       "S", "U", "P", "E", "R", " ", "X", "P", " ", "-", " ", "D">>,
        !.size = <<"1", "5", "5", "/", "8", "0", " ", "D", "1", "2">>,
        !.pattern_model = <<"L", "O", "A", "D", "S", "T", "A", "R", " ", "S", "U",
                            "P", "E", "R", " ", "X", "P">>,
        !.group = <<"S", "C", "V">>,
        !.ply_rating = <<"8", "P", "R">>]

\* more than ten distinct tags: "AAA BBB CCC DDD EEE FFF", model
\* "GGG HHH III JJJ KKK AAA", size "12.5R20 TT"
ManyTagsFields ==
    [BaseFields EXCEPT
        !.mpn = <<"Z", "9">>,
        !.material = <<"A", "A", "A", " ", "B", "B", "B", " ", "C", "C", "C", " ",
                       "D", "D", "D", " ", "E", "E", "E", " ", "F", "F", "F">>,
        !.pattern_model = <<"G", "G", "G", " ", "H", "H", "H", " ", "I", "I", "I",
                            " ", "J", "J", "J", " ", "K", "K", "K", " ", "A", "A",
                            "A">>,
        !.size = <<"1", "2", ".", "5", "R", "2", "0", " ", "T", "T">>]

FnFields ==
    { BaseFields,
      ScenarioFields,
      ManyTagsFields,
      \* no mpn
      [BaseFields EXCEPT !.mpn = <<" ">>],
      \* no material, and a complete tyre code
      [BaseFields EXCEPT !.mpn = <<" ", "Z", "9", " ">>, !.material = <<" ">>,
                         !.code = <<"C", "O", "D", "E", " ", "9">>],
      \* neither mpn nor material
      [BaseFields EXCEPT !.mpn = << >>, !.material = << >>],
      \* load index and speed rating "91/88T" and "T"
      [BaseFields EXCEPT !.load_index = <<"9", "1", "/", "8", "8", "T">>,
                         !.speed_rating = <<"T">>,
                         !.construction_type = <<"R", "a", "d", "i", "a", "l">>],
      \* a load index without a digit or an upper-case letter
      [BaseFields EXCEPT !.load_index = <<"a", "b", "c">>,
                         !.speed_rating = <<" ", " ">>],
      \* a line too short for its last columns
      [BaseFields EXCEPT !.series = None, !.special_features = None],
      \* a line too short for the complete tyre code
      [BaseFields EXCEPT !.code = None],
      \* optional columns of blanks
      [BaseFields EXCEPT !.group = <<" ">>, !.size = <<" ", " ">>,
                         !.pattern_model = <<" ">>, !.ply_rating = <<"\t">>,
                         !.record_type = <<" ">>, !.series = <<" ">>,
                         !.code = <<" ">>],
      \* the material is the size
      [BaseFields EXCEPT !.material = <<"1", "5", "5", "/", "8", "0", " ", "D", "1", "2">>,
                         !.size = <<"1", "5", "5", "/", "8", "0", " ", "D", "1", "2">>],
      \* a record type in the plural, a group, a series
      [BaseFields EXCEPT !.mpn = <<"Z", "9">>,
                         !.record_type = <<"T", "u", "b", "e", "s">>,
                         !.group = <<"T", "B", "R">>, !.series = <<"8", "0">>,
                         !.special_features = <<"T", "L">>],
      \* a complete tyre code longer than the material
      [BaseFields EXCEPT !.mpn = <<"Z", "9">>, !.material = <<"L", "O", "A", "D">>,
                         !.pattern_model = <<"L", "O", "A", "D">>,
                         !.code = <<"L", "O", "A", "D", " ", "S", "T", "A", "R", " ",
                                    "9", " ", "X", "L">>] }

FnRows(brand) == {RowOf(brand, fields) : fields \in FnFields}

FnFiles(brand) ==
    {MissingFile} \cup {FileOf(rows) : rows \in SeqsUpTo(FnRows(brand), MaxFileRows)}

\* the arguments of a direct call of compute_title
TitleValues ==
    { None, << >>, <<" ">>, <<"L", "O", "A", "D">>, <<"9">>, <<"L", "O", "A", "D", " ", "9">> }

TitleCalls ==
    {[fn |-> "compute_title", material |-> m, size |-> z, pattern_model |-> p] :
        m \in TitleValues, z \in TitleValues, p \in TitleValues}

\* bounds of the model: the products and the batch size handed to the batch loop
MaxProducts == 7
MaxLoopBatchSize == 4

\* BATCH_SIZE = 100
DefaultBatchSize == 100

\* a list of n products, each named by its position
ProductList(n) == [i \in 1..n |-> i]

\* the batch loop on n products with batch size B, and on 250 products with
\* the batch size of the source
BatchCalls ==
    {[fn |-> "batches", products |-> ProductList(n), size |-> B] :
        n \in 0..MaxProducts, B \in 1..MaxLoopBatchSize}
    \cup {[fn |-> "batches", products |-> ProductList(250), size |-> DefaultBatchSize]}

\* the arguments of a direct call of compute_category: absent (None or
\* empty) or present
GroupValues == { None, << >>, <<"S", "C", "V">> }
RecordTypeValues == { None, << >>, <<"T", "y", "r", "e">>, <<"T", "u", "b", "e", "s">> }
BrandValues == { None, << >>, <<"A", "p", "o", "l", "l", "o">> }

\* compute_category(group, record_type, brand) of the multi-source loader,
\* compute_category(group, record_type) of the Apollo loader
CategoryCalls ==
    {[fn |-> "compute_category", loader |-> "load_all_tire_data",
      group |-> g, record_type |-> t, brand |-> b] :
        g \in GroupValues, t \in RecordTypeValues, b \in BrandValues}
    \cup {[fn |-> "compute_category", loader |-> "load_apollo_data",
           group |-> g, record_type |-> t, brand |-> None] :
             g \in GroupValues, t \in RecordTypeValues}

\* one call, of a process of some hash seed
FnInit ==
    /\ hash_seed \in 0..MaxSeed
    /\ BATCH_SIZE = MaxBatchSize
    /\ RunInit
    /\ ApiIdle
    /\ \/ \E b \in DOMAIN Brands : \E f \in FnFiles(Brands[b]) :
             call = [fn |-> "parse_brand_data", brand |-> Brands[b], file |-> f]
       \/ call \in TitleCalls
       \/ call \in BatchCalls
       \/ call \in CategoryCalls
       \/ \E f \in FnFiles("Apollo") \ {MissingFile} :
             call = [fn |-> "parse_apollo_data", file |-> f]
    /\ ret = Pending
    /\ again = NotRepeated

CallParseBrandData ==
    /\ call.fn = "parse_brand_data"
    /\ ~ret.done
    /\ ret' = Returned(parse_brand_data(call.brand, call.file,
                                        DATA_FILES[call.brand].columns, hash_seed))
    /\ UNCHANGED <<hash_seed, BATCH_SIZE, run_vars, api_vars, call, again>>

\* the rows of a file from row first_row on
RowsFrom(f, first_row) ==
    [f EXCEPT !.rows = SubSeq(f.rows, first_row, Len(f.rows))]

\* parse_brand_data once more, in a process of hash seed s, on the same file
\* (first_row = 1) or on the file without its first rows
CallParseAgain ==
    /\ call.fn = "parse_brand_data"
    /\ ret.done
    /\ ~again.done
    /\ \E s \in 0..MaxSeed : \E first_row \in 1..Len(call.file.rows) :
         again' = [done |-> TRUE, hash_seed |-> s, first_row |-> first_row,
                   value |-> parse_brand_data(call.brand,
                                              RowsFrom(call.file, first_row),
                                              DATA_FILES[call.brand].columns, s)]
    /\ UNCHANGED <<hash_seed, BATCH_SIZE, run_vars, api_vars, call, ret>>

CallComputeTitle ==
    /\ call.fn = "compute_title"
    /\ ~ret.done
    /\ ret' = Returned(compute_title(call.material, call.size, call.pattern_model))
    /\ UNCHANGED <<hash_seed, BATCH_SIZE, run_vars, api_vars, call, again>>

\* lines 440-448: the loop over the batches of a list of products
CallBatches ==
    /\ call.fn = "batches"
    /\ ~ret.done
    /\ ret' = Returned(Batches(call.products, call.size))
    /\ UNCHANGED <<hash_seed, BATCH_SIZE, run_vars, api_vars, call, again>>

\* a direct call of compute_category of one of the two loaders
CallComputeCategory ==
    /\ call.fn = "compute_category"
    /\ ~ret.done
    /\ ret' = Returned(IF call.loader = "load_all_tire_data"
                       THEN compute_category(call.group, call.record_type, call.brand)
                       ELSE apollo_compute_category(call.group, call.record_type))
    /\ UNCHANGED <<hash_seed, BATCH_SIZE, run_vars, api_vars, call, again>>

\* a direct call of parse_apollo_data on an Apollo file
CallParseApolloData ==
    /\ call.fn = "parse_apollo_data"
    /\ ~ret.done
    /\ ret' = Returned(parse_apollo_data(call.file.rows, hash_seed))
    /\ UNCHANGED <<hash_seed, BATCH_SIZE, run_vars, api_vars, call, again>>

FnNext ==
    \/ CallParseBrandData
    \/ CallParseAgain
    \/ CallComputeTitle
    \/ CallBatches
    \/ CallComputeCategory
    \/ CallParseApolloData

FnSpec == FnInit /\ [][FnNext]_vars

(***************************************************************************)
(* The task client of the service: app/main.py                             *)
(***************************************************************************)
\* bound of the model: the task numbers the engine hands out
MaxTaskUid == 11

DecimalDigits == <<"0", "1", "2", "3", "4", "5", "6", "7", "8", "9">>

\* str(n) for an int n >= 0
RECURSIVE IntToStr(_)
IntToStr(n) ==
    IF n < 10 THEN <<DecimalDigits[n + 1]>>
    ELSE IntToStr(n \div 10) \o <<DecimalDigits[(n % 10) + 1]>>

\* A task handle is an object with attributes (attrs), a dict (items) or an
\* int (value); attrs and items map names to task numbers.
ObjectHandle(attrs) == [type |-> "object", attrs |-> attrs, items |-> << >>, value |-> 0]
DictHandle(items) == [type |-> "dict", attrs |-> << >>, items |-> items, value |-> 0]
IntHandle(n) == [type |-> "int", attrs |-> << >>, items |-> << >>, value |-> n]

\* every function from a subset of the names to the task numbers
Named(names) ==
    UNION {[D -> 0..MaxTaskUid] : D \in SUBSET names}

Handles ==
    {ObjectHandle(a) : a \in Named({"task_uid", "uid"})}
    \cup {DictHandle(i) : i \in Named({"taskUid", "uid"})}
    \cup {IntHandle(n) : n \in 0..MaxTaskUid}

\* str(task_info) of a handle as a whole
StrOfHandle(h) ==
    IF h.type = "int" THEN IntToStr(h.value)
    ELSE IF h.type = "dict" THEN <<"{", ".", ".", ".", "}">>
    ELSE <<"<", "o", "b", "j", "e", "c", "t", ">">>

\* str(d.get('taskUid') or d.get('uid')): 0 and None are falsy, str(None) is "None"
StrOfDictUid(items) ==
    IF "taskUid" \in DOMAIN items /\ items["taskUid"] # 0 THEN IntToStr(items["taskUid"])
    ELSE IF "uid" \in DOMAIN items THEN IntToStr(items["uid"])
    ELSE <<"N", "o", "n", "e">>

get_task_uid(h) ==
    IF "task_uid" \in DOMAIN h.attrs THEN IntToStr(h.attrs["task_uid"])
    ELSE IF "uid" \in DOMAIN h.attrs THEN IntToStr(h.attrs["uid"])
    ELSE IF h.type = "dict" THEN StrOfDictUid(h.items)
    ELSE StrOfHandle(h)

\* the uid names a task of the engine
IsTaskNumber(uid) == \E n \in 0..MaxTaskUid : uid = IntToStr(n)

\* How `await meili_client.wait_for_task(task_uid, timeout_in_ms=...)' can end:
\* it returns the task in a final status, or it raises with a message (str(e),
\* which may be empty).  With no client the attribute access on None raises; a
\* uid that names no task is refused by the engine.
WaitOutcomes(cl, uid) ==
    IF cl = "none"
    THEN {[kind |-> "raises",
           message |-> "'NoneType' object has no attribute 'wait_for_task'"]}
    ELSE {[kind |-> "raises", message |-> m] :
             m \in {"timeout", "connection refused", ""}}
         \cup IF IsTaskNumber(uid)
              THEN {[kind |-> "returns", status |-> st, type |-> ty] :
                       st \in {"succeeded", "failed"},
                       ty \in {"unknown", "documentAdditionOrUpdate"}}
              ELSE {[kind |-> "raises", message |-> "task not found"]}

TaskResponse(task_uid, status, type, details) ==
    [task_uid |-> task_uid, status |-> status, type |-> type, details |-> details]

\* lines 71-82, the body of the try, when the wait ends as `ending'
TryWait(h, ending) ==
    IF ending.kind = "raises"
    THEN [raised |-> TRUE, message |-> ending.message]
    ELSE [raised |-> FALSE,
          value |-> TaskResponse(get_task_uid(h), ending.status, ending.type,
                                 [task |-> "details"])]

\* the wait without the except clause: the exception leaves the function
WaitPropagates(h, ending) == TryWait(h, ending)

\* wait_for_task_completion(task_info): what it returns, or that it raised
wait_for_task_completion(h, ending) ==
    LET try == TryWait(h, ending)
    IN  IF ~try.raised THEN try
        ELSE [raised |-> FALSE,
              value |-> TaskResponse(get_task_uid(h), "enqueued", "unknown",
                                     [error |-> "Could not wait for completion",
                                      message |-> try.message])]

\* the service before its startup (down), or the module used without the
\* lifespan, hence without a client (idle)
ApiInit ==
    /\ hash_seed = 0
    /\ BATCH_SIZE = MaxBatchSize
    /\ RunInit
    /\ call = NoCall
    /\ ret = Pending
    /\ again = NotRepeated
    /\ meili_client = "none"
    /\ api_pc \in {"down", "idle"}
    /\ caller = "none"
    /\ task_info = NoHandle
    /\ outcome = NoOutcome
    /\ response = NoResponse
    /\ settings = {}
    /\ attr_idx = 1
    /\ engine_log = << >>
    /\ task_results = << >>

\* lifespan, lines 100-107: the client is created
LifespanStartup ==
    /\ api_pc = "down"
    /\ meili_client' = "open"
    /\ api_pc' = "starting"
    /\ UNCHANGED <<hash_seed, BATCH_SIZE, run_vars, fn_vars, settings_vars,
                   caller, task_info, outcome,
                   response>>

\* lifespan, lines 110-115: the health check; its exception is logged and
\* raised again, which ends the startup
LifespanHealth ==
    /\ api_pc = "starting"
    /\ api_pc' \in {"idle", "startup_failed"}
    /\ UNCHANGED <<hash_seed, BATCH_SIZE, run_vars, fn_vars, settings_vars,
                   meili_client, caller,
                   task_info, outcome, response>>

\* lifespan, lines 119-122: after the yield, `if meili_client: aclose()'
LifespanShutdown ==
    /\ api_pc \in {"idle", "done"}
    /\ meili_client = "open"
    /\ meili_client' = "closed"
    /\ api_pc' = "stopped"
    /\ UNCHANGED <<hash_seed, BATCH_SIZE, run_vars, fn_vars, settings_vars,
                   caller, task_info, outcome,
                   response>>

\* the answers: an HTTP response, the value a function returned, the
\* exception it raised
Http200(body) == [kind |-> "http", code |-> 200, body |-> body]
Http500(detail) == [kind |-> "http", code |-> 500, detail |-> detail]
Returns(value) == [kind |-> "return", body |-> value]
Raises(message) == [kind |-> "raise", detail |-> message]

\* POST /index/products, lines 149-157: up to the task handle of add_documents
IndexProductsSubmit ==
    /\ api_pc = "idle"
    /\ caller' = "index_products"
    /\ \/ /\ meili_client = "open"
          /\ \E h \in Handles : task_info' = h
          /\ api_pc' = "waiting"
          /\ UNCHANGED response
       \/ /\ response' = Http500(IF meili_client = "open" THEN "add_documents failed"
                                 ELSE "'NoneType' object has no attribute 'index'")
          /\ api_pc' = "done"
          /\ UNCHANGED task_info
    /\ UNCHANGED <<hash_seed, BATCH_SIZE, run_vars, fn_vars, settings_vars,
                   meili_client, outcome>>

\* a task that ended failed answered as an error of the request
IndexProductsWaitFailedIs500 ==
    /\ api_pc = "waiting"
    /\ caller = "index_products"
    /\ \E o \in WaitOutcomes(meili_client, get_task_uid(task_info)) :
         LET result == wait_for_task_completion(task_info, o)
         IN  /\ outcome' = o
             /\ response' = IF result.raised \/ result.value.status = "failed"
                            THEN Http500("Indexing failed")
                            ELSE Http200(result.value)
    /\ api_pc' = "done"
    /\ UNCHANGED <<hash_seed, BATCH_SIZE, run_vars, fn_vars, settings_vars,
                   meili_client, caller,
                   task_info>>

\* POST /index/products, lines 160-171: the wait, and the answer
IndexProductsWait ==
    /\ api_pc = "waiting"
    /\ caller = "index_products"
    /\ \E o \in WaitOutcomes(meili_client, get_task_uid(task_info)) :
         LET result == wait_for_task_completion(task_info, o)
         IN  /\ outcome' = o
             /\ response' = IF result.raised THEN Http500(result.message)
                            ELSE Http200(result.value)
    /\ api_pc' = "done"
    /\ UNCHANGED <<hash_seed, BATCH_SIZE, run_vars, fn_vars, settings_vars,
                   meili_client, caller,
                   task_info>>

\* wait_for_task_completion(task_info) called on a handle, with or without a
\* client
WaitCall ==
    /\ api_pc = "idle"
    /\ caller' = "wait_for_task_completion"
    /\ \E h \in Handles : task_info' = h
    /\ api_pc' = "waiting"
    /\ UNCHANGED <<hash_seed, BATCH_SIZE, run_vars, fn_vars, settings_vars,
                   meili_client, outcome,
                   response>>

WaitReturn ==
    /\ api_pc = "waiting"
    /\ caller = "wait_for_task_completion"
    /\ \E o \in WaitOutcomes(meili_client, get_task_uid(task_info)) :
         LET result == wait_for_task_completion(task_info, o)
         IN  /\ outcome' = o
             /\ response' = IF result.raised THEN Raises(result.message)
                            ELSE Returns(result.value)
    /\ api_pc' = "done"
    /\ UNCHANGED <<hash_seed, BATCH_SIZE, run_vars, fn_vars, settings_vars,
                   meili_client, caller,
                   task_info>>

\* bound of the model: the attributes one settings request gives
MaxRequestAttrs == 3

\* the attributes update_index_settings looks at, in the order of its ifs
SettingAttrs ==
    <<"searchable_attributes", "filterable_attributes", "sortable_attributes",
      "ranking_rules", "stop_words", "synonyms">>

\* the non-null fields of an IndexSettings request
SettingsRequests ==
    {r \in SUBSET (Range(SettingAttrs) \cup {"distinct_attribute"}) :
        Cardinality(r) <= MaxRequestAttrs}

\* the TaskInfo of the engine's k-th accepted update: an object with task_uid
SettingsHandle(k) == ObjectHandle([a \in {"task_uid"} |-> k])

\* tasks[0] instead of tasks[-1]
FirstResult(results) ==
    IF Len(results) > 0 THEN results[1]
    ELSE TaskResponse("no_changes", "succeeded", "settings_update",
                      [message |-> "No settings to update"])

\* lines 211-217: tasks[-1] if tasks else the synthetic "no_changes"
LastResult(results) ==
    IF Len(results) > 0 THEN results[Len(results)]
    ELSE TaskResponse("no_changes", "succeeded", "settings_update",
                      [message |-> "No settings to update"])

\* POST /index/settings, lines 180-185: the request arrives; without a client
\* meili_client.index raises
UpdateSettingsStart ==
    /\ api_pc = "idle"
    /\ caller' = "update_index_settings"
    /\ \E r \in SettingsRequests : settings' = r
    /\ attr_idx' = 1
    /\ IF meili_client = "open"
       THEN api_pc' = "settings_loop" /\ UNCHANGED response
       ELSE /\ api_pc' = "done"
            /\ response' = Http500("'NoneType' object has no attribute 'index'")
    /\ UNCHANGED <<hash_seed, BATCH_SIZE, run_vars, fn_vars, meili_client, task_info,
                   outcome, engine_log, task_results>>

\* a rejected update undoes the updates accepted before it
UpdateSettingsSubmitRollsBack ==
    /\ api_pc = "settings_loop"
    /\ attr_idx <= Len(SettingAttrs)
    /\ IF SettingAttrs[attr_idx] \in settings
       THEN \/ /\ task_info' = SettingsHandle(Len(engine_log))
               /\ engine_log' = Append(engine_log,
                                       [name |-> SettingAttrs[attr_idx], waited |-> FALSE])
               /\ api_pc' = "settings_wait"
               /\ UNCHANGED <<attr_idx, response>>
            \/ /\ response' = Http500("update rejected")
               /\ api_pc' = "done"
               /\ engine_log' = << >>
               /\ UNCHANGED <<attr_idx, task_info>>
       ELSE /\ attr_idx' = attr_idx + 1
            /\ UNCHANGED <<api_pc, task_info, engine_log, response>>
    /\ UNCHANGED <<hash_seed, BATCH_SIZE, run_vars, fn_vars, meili_client, caller, outcome,
                   settings, task_results>>

\* lines 187-209: one `if "<attribute>" in settings_dict', up to the handle
\* of the update; an attribute the request does not give is passed over
UpdateSettingsSubmit ==
    /\ api_pc = "settings_loop"
    /\ attr_idx <= Len(SettingAttrs)
    /\ IF SettingAttrs[attr_idx] \in settings
       THEN \/ /\ task_info' = SettingsHandle(Len(engine_log))
               /\ engine_log' = Append(engine_log,
                                       [name |-> SettingAttrs[attr_idx], waited |-> FALSE])
               /\ api_pc' = "settings_wait"
               /\ UNCHANGED <<attr_idx, response>>
            \/ /\ response' = Http500("update rejected")
               /\ api_pc' = "done"
               /\ UNCHANGED <<attr_idx, task_info, engine_log>>
       ELSE /\ attr_idx' = attr_idx + 1
            /\ UNCHANGED <<api_pc, task_info, engine_log, response>>
    /\ UNCHANGED <<hash_seed, BATCH_SIZE, run_vars, fn_vars, meili_client, caller, outcome,
                   settings, task_results>>

\* tasks.append(await wait_for_task_completion(task_info))
UpdateSettingsWait ==
    /\ api_pc = "settings_wait"
    /\ \E o \in WaitOutcomes(meili_client, get_task_uid(task_info)) :
         LET result == wait_for_task_completion(task_info, o)
         IN  /\ outcome' = o
             /\ engine_log' = [engine_log EXCEPT ![Len(engine_log)].waited = TRUE]
             /\ IF result.raised
                THEN /\ response' = Http500(result.message)
                     /\ api_pc' = "done"
                     /\ UNCHANGED <<attr_idx, task_results>>
                ELSE /\ task_results' = Append(task_results, result.value)
                     /\ attr_idx' = attr_idx + 1
                     /\ api_pc' = "settings_loop"
                     /\ UNCHANGED response
    /\ UNCHANGED <<hash_seed, BATCH_SIZE, run_vars, fn_vars, meili_client, caller,
                   task_info, settings>>

\* lines 211-224: the last task response, or the synthetic one, is returned
UpdateSettingsReturn ==
    /\ api_pc = "settings_loop"
    /\ attr_idx > Len(SettingAttrs)
    /\ response' = Http200(LastResult(task_results))
    /\ api_pc' = "done"
    /\ UNCHANGED <<hash_seed, BATCH_SIZE, run_vars, fn_vars, meili_client, caller,
                   task_info, outcome, settings_vars>>

ApiNext ==
    \/ LifespanStartup
    \/ LifespanHealth
    \/ LifespanShutdown
    \/ IndexProductsSubmit
    \/ IndexProductsWait
    \/ WaitCall
    \/ WaitReturn
    \/ UpdateSettingsStart
    \/ UpdateSettingsSubmit
    \/ UpdateSettingsWait
    \/ UpdateSettingsReturn

ApiSpec == ApiInit /\ [][ApiNext]_vars

Next ==
    \/ CreateClient
    \/ Health
    \/ SubmitSetting
    \/ AwaitSetting
    \/ SubmitClear
    \/ AwaitClear
    \/ ParseBrand
    \/ SubmitBatch
    \/ AwaitBatch
    \/ GetStats
    \/ Finally

Spec == Init /\ [][Next]_vars

(***************************************************************************)
(* Properties                                                              *)
(***************************************************************************)
\* the document tasks of the run, by their position in the task log
DocumentTasks == {i \in DOMAIN tasks : tasks[i].kind = "documents"}

\* a direct call of parse_brand_data has returned
Parsed == call.fn = "parse_brand_data" /\ ret.done

\* the trimmed text of a column of a raw row; nothing when the row has no
\* such column
Trimmed(row, column) ==
    IF column \notin DOMAIN row \/ row[column] = None THEN << >>
    ELSE Strip(row[column])

\* the row has an mpn and a material
HasEssentials(brand, row) ==
    /\ Trimmed(row, DATA_FILES[brand].columns["mpn"]) # << >>
    /\ Trimmed(row, DATA_FILES[brand].columns["material"]) # << >>

\* the full tag set of a product: the lower-cased tokens of material,
\* pattern_model and size and the brand, without the stop-words
FullTagSet(p) ==
    Range(RawTags(p.material, p.pattern_model, p.size, p.brand)) \ common_words

\* a product without its tags
WithoutTags(p) == [f \in (DOMAIN p) \ {"tags"} |-> p[f]]

\* the upper-case source names
UpperName ==
    [ Apollo |-> <<"A", "P", "O", "L", "L", "O">>, CEAT |-> <<"C", "E", "A", "T">>, MRF |-> <<"M", "R", "F">>, Eurogrip |-> <<"E", "U", "R", "O", "G", "R", "I", "P">> ]

\* the configured source a product names as its brand
SourceOf(p) == CHOOSE b \in Range(Brands) : BrandChars[b] = p.brand

RECURSIVE Flatten(_)
Flatten(lists) ==
    IF Len(lists) = 0 THEN << >>
    ELSE Flatten(SubSeq(lists, 1, Len(lists) - 1)) \o lists[Len(lists)]

\* C1: when the submission succeeded (a task handle of any shape came back)
\* and the wait raised, the caller gets a task result with status "enqueued"
\* whose details carry the message of the exception; the submit operation
\* answers 200 and the helper returns, neither raises.  In a settings update
\* the result of the attribute whose wait raised is such a result.
C1_WaitDegradesToEnqueued ==
    /\ (/\ api_pc = "done"
        /\ caller \in {"index_products", "wait_for_task_completion"}
        /\ task_info # NoHandle
        /\ outcome.kind = "raises") =>
            /\ response.kind \in {"http", "return"}
            /\ response.kind = "http" => response.code = 200
            /\ response.body.status = "enqueued"
            /\ response.body.details.error # ""
            /\ response.body.details.message = outcome.message
    /\ (caller = "update_index_settings" /\ outcome.kind = "raises") =>
            /\ Len(task_results) > 0
            /\ task_results[Len(task_results)].status = "enqueued"
            /\ task_results[Len(task_results)].details.error # ""
            /\ task_results[Len(task_results)].details.message = outcome.message

\* POST /index/products got a handle of no supported shape, the wait raised,
\* and the answer is 200 with status "enqueued"
C1_Witness ==
    /\ api_pc = "done"
    /\ caller = "index_products"
    /\ task_info = ObjectHandle(<< >>)
    /\ outcome.kind = "raises"
    /\ response.kind = "http"
    /\ response.code = 200
    /\ response.body.status = "enqueued"
    /\ response.body.details.message = "task not found"

\* C2: in a load run only the last submitted task can be waiting for its
\* await; a document task is followed by another one only after its await
\* returned; and the document tasks of one source carry the batch numbers
\* 1, 2, 3, ... in submission order.
C2_BatchesInOrderOneOutstanding ==
    /\ \A i \in DOMAIN tasks : tasks[i].waited = "no" => i = Len(tasks)
    /\ \A i, j \in DocumentTasks : i < j => tasks[i].waited = "returned"
    /\ \A j \in DocumentTasks :
          tasks[j].batch_num =
              1 + Cardinality({i \in DocumentTasks :
                                  i < j /\ tasks[i].name = tasks[j].name})

\* the second batch of a source is submitted and not yet awaited, the first
\* one has been awaited
C2_Witness ==
    \E i, j \in DocumentTasks :
        /\ i < j
        /\ tasks[i].name = tasks[j].name
        /\ tasks[i].batch_num = 1 /\ tasks[i].waited = "returned"
        /\ tasks[j].batch_num = 2 /\ tasks[j].waited = "no"

\* C3: the batches of a list of n products with batch size B, concatenated
\* in order, are the list; every batch has between 1 and B products, every
\* batch but the last exactly B; there are ceil(n/B) batches; 250 products
\* with batch size 100 give batches of 100, 100 and 50.
C3_BatchesPartitionTheList ==
    (call.fn = "batches" /\ ret.done) =>
        LET n == Len(call.products)
            B == call.size
            bs == ret.value
        IN  /\ Flatten(bs) = call.products
            /\ \A k \in DOMAIN bs : Len(bs[k]) >= 1 /\ Len(bs[k]) <= B
            /\ \A k \in 1..(Len(bs) - 1) : Len(bs[k]) = B
            /\ Len(bs) = (n + B - 1) \div B
            /\ (n = 250 /\ B = 100) =>
                  [k \in DOMAIN bs |-> Len(bs[k])] = <<100, 100, 50>>

\* 250 products were split with batch size 100 into three batches
C3_Witness ==
    /\ call.fn = "batches"
    /\ ret.done
    /\ Len(call.products) = 250
    /\ call.size = 100
    /\ Len(ret.value) = 3
    /\ Len(ret.value[3]) = 50

\* C4: every product parse_brand_data emits has a non-empty mpn and a
\* non-empty material, and comes from a row whose trimmed mpn and trimmed
\* material are both non-empty: no more products than such rows, each with
\* the mpn of one of them.
C4_RowsWithoutEssentialsAreSkipped ==
    Parsed =>
        LET rows == call.file.rows
            mpn_column == DATA_FILES[call.brand].columns["mpn"]
            valid == {i \in DOMAIN rows : HasEssentials(call.brand, rows[i])}
        IN  /\ \A k \in DOMAIN ret.value :
                  /\ ret.value[k].mpn \notin {<< >>, None}
                  /\ ret.value[k].material \notin {<< >>, None}
                  /\ \E i \in valid : ret.value[k].mpn = Trimmed(rows[i], mpn_column)
            /\ Len(ret.value) <= Cardinality(valid)

\* a file of two rows, one of them without mpn or material, gave one product
C4_Witness ==
    /\ Parsed
    /\ Len(call.file.rows) = 2
    /\ \E i \in DOMAIN call.file.rows : ~HasEssentials(call.brand, call.file.rows[i])
    /\ Len(ret.value) = 1

\* C5: no two products submitted in one run, over all sources and batches,
\* have the same id.
C5_SubmittedIdsUnique ==
    \A i, j \in DocumentTasks :
        \A k \in DOMAIN tasks[i].docs, l \in DOMAIN tasks[j].docs :
            tasks[i].docs[k] = tasks[j].docs[l] => (i = j /\ k = l)

\* C6: the id of a product is the upper-case name of its source, "_" and its
\* mpn; every submitted id starts with the upper-case name of the source of
\* its batch; and batches of two different sources share no id.
C6_IdsOfDifferentSourcesDiffer ==
    /\ \A k \in DOMAIN products :
          products[k].id = UpperName[SourceOf(products[k])] \o <<"_">> \o products[k].mpn
    /\ \A i \in DocumentTasks : \A k \in DOMAIN tasks[i].docs :
          StartsAt(UpperName[tasks[i].name] \o <<"_">>, tasks[i].docs[k], 1)
    /\ \A i, j \in DocumentTasks :
          tasks[i].name # tasks[j].name =>
              Range(tasks[i].docs) \cap Range(tasks[j].docs) = {}

\* Apollo and CEAT both hold the mpn Z9: APOLLO_Z9 and CEAT_Z9 were submitted
C6_Witness ==
    \E i, j \in DocumentTasks :
        /\ tasks[i].name = "Apollo"
        /\ tasks[j].name = "CEAT"
        /\ <<"A", "P", "O", "L", "L", "O", "_", "Z", "9">> \in Range(tasks[i].docs)
        /\ <<"C", "E", "A", "T", "_", "Z", "9">> \in Range(tasks[j].docs)

\* C7 as stated: parsing the same file a second time gives the same products,
\* tags included, whatever process does it.
C7_SecondParseIdentical ==
    (again.done /\ again.first_row = 1) => again.value = ret.value

\* C7 as amended: a second parse of the file, or of the file without its
\* first rows, gives for every row the product the first parse gave, tags
\* included when the string-hash seed of the process is the same; under
\* another seed every field but tags is the same, and tags is the same set
\* when the full tag set has at most 10 elements.
C7_SameSeedSameProduct ==
    again.done =>
        LET first == ret.value
            second == again.value
            d == Len(first) - Len(second)
        IN  /\ d >= 0
            /\ again.first_row = 1 => d = 0
            /\ \A k \in DOMAIN second :
                  /\ WithoutTags(second[k]) = WithoutTags(first[k + d])
                  /\ again.hash_seed = hash_seed =>
                        second[k].tags = first[k + d].tags
                  /\ Cardinality(FullTagSet(first[k + d])) <= 10 =>
                        Range(second[k].tags) = Range(first[k + d].tags)

\* the second row of a file was parsed again on its own, under the same
\* seed, and its product, with several tags, is the one of the first parse
C7_Witness ==
    /\ again.done
    /\ again.hash_seed = hash_seed
    /\ again.first_row = 2
    /\ Len(ret.value) = 2
    /\ Len(again.value) = 1
    /\ Len(again.value[1].tags) >= 2
    /\ again.value[1] = ret.value[2]

\* C8: the tags of every emitted product are at most 10, pairwise different,
\* and all in the full tag set of the product.
C8_TagsCappedDistinctSubset ==
    Parsed =>
        \A k \in DOMAIN ret.value :
            LET tags == ret.value[k].tags
            IN  /\ Len(tags) <= 10
                /\ \A a, b \in DOMAIN tags : a # b => tags[a] # tags[b]
                /\ Range(tags) \subseteq FullTagSet(ret.value[k])

\* a product with more than 10 distinct tags was emitted with 10 of them
C8_Witness ==
    /\ Parsed
    /\ \E k \in DOMAIN ret.value :
          /\ Cardinality(FullTagSet(ret.value[k])) > 10
          /\ Len(ret.value[k].tags) = 10

\* C9: compute_title returns a non-empty string for every combination of
\* present, empty and absent arguments, and the title of every emitted
\* product is a non-empty string.
C9_TitleNeverEmpty ==
    /\ (call.fn = "compute_title" /\ ret.done) => ret.value \notin {<< >>, None}
    /\ Parsed => \A k \in DOMAIN ret.value : ret.value[k].title \notin {<< >>, None}

\* compute_title(None, None, None) returned "Tire Product"
C9_Witness ==
    /\ call.fn = "compute_title"
    /\ ret.done
    /\ call.material = None /\ call.size = None /\ call.pattern_model = None
    /\ ret.value = <<"T", "i", "r", "e", " ", "P", "r", "o", "d", "u", "c", "t">>

\* C10: every optional field of every emitted product is absent (None) or a
\* non-empty string without leading or trailing whitespace.
C10_OptionalFieldsAbsentOrTrimmed ==
    Parsed =>
        \A k \in DOMAIN ret.value : \A f \in OptionalFields :
            LET v == ret.value[k][f]
            IN  v = None \/ (v # << >> /\ Strip(v) = v)

\* a CEAT product whose combined column "91/88T" became load index 91/88 and
\* speed rating T, with its empty size absent
C10_Witness ==
    /\ Parsed
    /\ \E k \in DOMAIN ret.value :
          /\ ret.value[k].brand = BrandChars["CEAT"]
          /\ ret.value[k].load_index = <<"9", "1", "/", "8", "8">>
          /\ ret.value[k].speed_rating = <<"T">>
          /\ ret.value[k].size = None

\* C11: the product of the row mpn X1, material "155/80 D12 8PR LOADSTAR
\* SUPER XP - D", size "155/80 D12", pattern_model "LOADSTAR SUPER XP", group
\* SCV, no record type, has record_type "Tyre", title "155/80 D12 LOADSTAR
\* SUPER XP", the category brand, SCV, Tyres, and at most 10 tags, among them
\* loadstar, super, xp and 8pr.
C11_ScenarioRowProduct ==
    Parsed =>
        \A k \in DOMAIN ret.value :
            LET p == ret.value[k]
            IN  (/\ p.mpn = ScenarioFields.mpn
                 /\ p.material = ScenarioFields.material
                 /\ p.size = ScenarioFields.size
                 /\ p.pattern_model = ScenarioFields.pattern_model
                 /\ p.group = ScenarioFields.group) =>
                    /\ p.record_type = <<"T", "y", "r", "e">>
                    /\ p.title = <<"1", "5", "5", "/", "8", "0", " ", "D", "1", "2", " ", "L", "O", "A", "D", "S", "T", "A", "R", " ", "S", "U", "P", "E", "R", " ", "X", "P">>
                    /\ p.category = p.brand \o <<" ", "S", "C", "V", " ", "T", "y", "r", "e", "s">>
                    /\ Len(p.tags) <= 10
                    /\ { <<"l", "o", "a", "d", "s", "t", "a", "r">>, <<"s", "u", "p", "e", "r">>, <<"x", "p">>, <<"8", "p", "r">> } \subseteq Range(p.tags)

\* a column that the normalizer of the brand reads holds None in the row (the
\* line was too short for it): stripping it raises
RowRaises(brand, row) ==
    \E c \in DOMAIN row :
        /\ row[c] = None
        /\ \/ c \in BrandColumns(brand)
           \/ /\ c = CompleteTyreCode
              /\ brand \in {"MRF", "Eurogrip"}
              /\ HasEssentials(brand, row)

\* the rows of a file that are neither rejected nor raise, in input order
KeptRows(brand, rows) ==
    SelectSeq(rows, LAMBDA row : HasEssentials(brand, row) /\ ~RowRaises(brand, row))

\* C12: parse_brand_data returns one product for every row that is neither
\* rejected (empty mpn or material) nor raises, in the order of the rows: the
\* number of products is the number of rows minus the skipped ones, and the
\* k-th product has the mpn of the k-th such row.
C12_BadRowsSkippedOthersKept ==
    Parsed =>
        LET rows == call.file.rows
            kept == KeptRows(call.brand, rows)
            mpn_column == DATA_FILES[call.brand].columns["mpn"]
            skipped == {i \in DOMAIN rows :
                           ~HasEssentials(call.brand, rows[i])
                           \/ RowRaises(call.brand, rows[i])}
        IN  /\ Len(ret.value) = Len(rows) - Cardinality(skipped)
            /\ Len(ret.value) = Len(kept)
            /\ \A k \in DOMAIN kept :
                  ret.value[k].mpn = Trimmed(kept[k], mpn_column)

\* the first of two rows raised, the second one was emitted
C12_Witness ==
    /\ Parsed
    /\ Len(call.file.rows) = 2
    /\ RowRaises(call.brand, call.file.rows[1])
    /\ Len(ret.value) = 1
    /\ ret.value[1].mpn = Trimmed(call.file.rows[2], DATA_FILES[call.brand].columns["mpn"])

\* C13: when the file of a source is missing or cannot be read, the step that
\* parses it records the source with count 0, submits nothing for it and goes
\* on to the next source or to the final summary; it never ends the run.
C13_UnavailableFileCountsZero ==
    [][(pc = "parse" /\ ~(file'.exists /\ file'.readable)) =>
          /\ pc' \in {"parse", "stats"}
          /\ ~error'
          /\ Brands[brand_idx] \in DOMAIN brand_stats'
          /\ brand_stats'[Brands[brand_idx]] = 0
          /\ tasks' = tasks]_vars

\* C14: when the engine rejects the submission of a document batch (the step
\* at batch_submit adds no task), the run is not ended: it goes on with the
\* next batch, the next source or the summary, without an error.
C14_RejectedBatchDoesNotAbort ==
    [][(pc = "batch_submit" /\ tasks' = tasks) =>
          /\ ~error'
          /\ pc' \in {"batch_submit", "parse", "stats"}]_vars

\* C15: when the wait for a submitted settings task or document batch raises
\* or times out, the run is not ended: it goes on with the next setting,
\* batch or source, without an error.
C15_FailedWaitDoesNotAbort ==
    [][(/\ pc \in {"setting_await", "batch_await"}
        /\ tasks'[Len(tasks)].waited = "raised") =>
          /\ ~error'
          /\ pc' \in {"setting_submit", "clear_submit", "batch_submit", "parse",
                      "stats"}]_vars

\* C16: the task log of a run is the settings updates, each once and in their
\* order, then at most one index clear, then the document batches: a clear or
\* a batch is submitted only when every settings update has been submitted
\* and awaited, no settings update follows them, and from the loading of the
\* first source to Done all settings have been applied exactly once.
C16_SettingsThenClearThenLoad ==
    /\ \A i \in DOMAIN tasks :
          tasks[i].kind = "settings" => i <= Len(SETTINGS) /\ tasks[i].name = SETTINGS[i]
    /\ \A i \in DOMAIN tasks :
          tasks[i].kind \in {"delete", "documents"} =>
              /\ i > Len(SETTINGS)
              /\ \A j \in 1..Len(SETTINGS) :
                    tasks[j].kind = "settings" /\ tasks[j].waited = "returned"
    /\ \A i \in DOMAIN tasks : tasks[i].kind = "delete" => i = Len(SETTINGS) + 1
    /\ pc \in {"clear_submit", "clear_await", "parse", "batch_submit", "batch_await",
               "stats", "done"} =>
          Cardinality({i \in DOMAIN tasks : tasks[i].kind = "settings"}) = Len(SETTINGS)

\* a run reached Done after the five settings updates, the clear and batches
\* of two sources
C16_Witness ==
    /\ pc = "done"
    /\ Len(tasks) > Len(SETTINGS) + 2
    /\ tasks[Len(SETTINGS) + 1].kind = "delete"
    /\ \E i, j \in DocumentTasks : tasks[i].name # tasks[j].name

\* C17: when the index clear fails, because its submission raises (the step
\* at clear_submit adds no task) or because the wait for it raises, the run
\* goes on, without an error, to the loading of the first source.
C17_FailedClearDoesNotAbort ==
    [][(\/ pc = "clear_submit" /\ tasks' = tasks
        \/ pc = "clear_await" /\ tasks'[Len(tasks)].waited = "raised") =>
          /\ ~error'
          /\ pc' = "parse"
          /\ brand_idx' = 1]_vars

\* the wait for the clear raised, and the run went on to submit documents and
\* reached Done
C17_Witness ==
    /\ pc = "done"
    /\ \E i \in DOMAIN tasks : tasks[i].kind = "delete" /\ tasks[i].waited = "raised"
    /\ DocumentTasks # {}

\* C18: the engine connection is created at most once and, when it has been
\* created, it is closed by the time its user has ended, on every path; here
\* for the service: after the shutdown and after a startup whose health check
\* failed.
C18_ClientClosedOnEveryPath ==
    /\ [](api_pc \in {"stopped", "startup_failed"} /\ meili_client # "none" =>
             meili_client = "closed")
    /\ [][meili_client' # meili_client =>
             \/ meili_client = "none" /\ meili_client' = "open"
             \/ meili_client = "open" /\ meili_client' = "closed"]_vars

\* the place of an attribute in the order of update_index_settings
AttrPlace(name) == CHOOSE i \in DOMAIN SettingAttrs : SettingAttrs[i] = name

\* the status a wait that ended as `ending' is reported with
ReportedStatus(ending) ==
    IF ending.kind = "raises" THEN "enqueued" ELSE ending.status

\* C19: update_index_settings submits attributes the request gives, in the
\* order searchable, filterable, sortable, ranking rules, stop words,
\* synonyms, each once; only the last submitted update can be un-awaited;
\* and when it answers after at least one update, every given attribute has
\* been submitted and awaited and the answer is the result of the last one:
\* its task uid and the status its own wait ended with, whatever the earlier
\* results are.
C19_SettingsOneByOneLastReported ==
    /\ \A i \in DOMAIN engine_log :
          /\ engine_log[i].name \in settings
          /\ i < Len(engine_log) => engine_log[i].waited
          /\ \A j \in DOMAIN engine_log :
                i < j => AttrPlace(engine_log[i].name) < AttrPlace(engine_log[j].name)
    /\ (/\ caller = "update_index_settings"
        /\ api_pc \in {"done", "stopped"}
        /\ response.kind = "http"
        /\ response.code = 200
        /\ settings \cap Range(SettingAttrs) # {}) =>
            /\ {engine_log[i].name : i \in DOMAIN engine_log}
                  = settings \cap Range(SettingAttrs)
            /\ \A i \in DOMAIN engine_log : engine_log[i].waited
            /\ response.body.task_uid = IntToStr(Len(engine_log) - 1)
            /\ response.body.status = ReportedStatus(outcome)

\* three attributes were updated; the first task failed, the wait for the
\* second raised, the last succeeded, and the answer is the last result
C19_Witness ==
    /\ caller = "update_index_settings"
    /\ api_pc = "done"
    /\ Len(task_results) = 3
    /\ task_results[1].status = "failed"
    /\ task_results[2].status = "enqueued"
    /\ outcome.kind = "returns"
    /\ outcome.status = "succeeded"
    /\ response.kind = "http"
    /\ response.code = 200
    /\ response.body.status = "succeeded"
    /\ response.body.task_uid = <<"2">>

\* the identifier the priority chain names for a handle: the attribute
\* task_uid, then the attribute uid; for a mapping the value under taskUid,
\* or under uid when taskUid is not present; for any other handle its string
ChainUid(h) ==
    IF "task_uid" \in DOMAIN h.attrs THEN IntToStr(h.attrs["task_uid"])
    ELSE IF "uid" \in DOMAIN h.attrs THEN IntToStr(h.attrs["uid"])
    ELSE IF h.type = "dict" /\ "taskUid" \in DOMAIN h.items
         THEN IntToStr(h.items["taskUid"])
    ELSE IF h.type = "dict" /\ "uid" \in DOMAIN h.items
         THEN IntToStr(h.items["uid"])
    ELSE StrOfHandle(h)

\* the handle has an identifier the chain names
HasChainUid(h) ==
    h.type = "dict" => DOMAIN h.items # {}

\* C20: the task uid of every task response made for a handle is the one the
\* priority chain names: attribute task_uid, then attribute uid, then for a
\* mapping the value under taskUid (for every task number, 0 included) or
\* under uid when taskUid is not present, then the string of the handle.
C20_TaskUidByPriority ==
    (/\ api_pc = "done"
     /\ caller \in {"index_products", "wait_for_task_completion"}
     /\ task_info # NoHandle
     /\ HasChainUid(task_info)
     /\ response.kind \in {"http", "return"}
     /\ response.kind = "http" => response.code = 200) =>
        response.body.task_uid = ChainUid(task_info)

\* C21: when the first health check raises, the run ends with an error: it
\* goes to the close of the client with nothing submitted, and from an error
\* on nothing is submitted any more and the error stays.
C21_FailedHealthCheckSubmitsNothing ==
    /\ [][(pc = "health" /\ error') =>
             /\ pc' = "finally"
             /\ tasks' = << >>]_vars
    /\ [][error => (error' /\ tasks' = tasks /\ pc' \in {"finally", "failed"})]_vars

\* the run has ended with an error before anything was submitted
C21_Witness ==
    /\ pc = "failed"
    /\ error
    /\ client = "closed"
    /\ tasks = << >>
    /\ brand_stats = << >>
    /\ rows_read = 0

\* the engine has accepted what the request submitted: the documents of
\* POST /index/products, every given attribute of POST /index/settings
SubmissionAccepted ==
    /\ api_pc = "done"
    /\ \/ caller = "index_products" /\ task_info # NoHandle
       \/ /\ caller = "update_index_settings"
          /\ meili_client # "none"
          /\ Len(engine_log) = Cardinality(settings \cap Range(SettingAttrs))
          /\ \A i \in DOMAIN engine_log : engine_log[i].waited

\* the answer is 200 with a task response that has task_uid, status and type
AnswersTaskResponse ==
    /\ response.kind = "http"
    /\ response.code = 200
    /\ {"task_uid", "status", "type"} \subseteq DOMAIN response.body

\* C22 as stated: whenever the engine accepts the submission, both endpoints
\* answer 200 with a task response whose status is succeeded, enqueued or
\* processing.
C22_AcceptedAnswersNeverFailed ==
    SubmissionAccepted =>
        /\ AnswersTaskResponse
        /\ response.body.status \in {"succeeded", "enqueued", "processing"}

\* C22 amended: whenever the engine accepts the submission, both endpoints
\* answer 200 with a task response; POST /index/products reports the status
\* the task ended with (succeeded or failed), or enqueued when the wait
\* raised, and POST /index/settings reports one of the same three.
C22_AcceptedAnswersFinalStatus ==
    SubmissionAccepted =>
        /\ AnswersTaskResponse
        /\ response.body.status \in {"succeeded", "failed", "enqueued"}
        /\ caller = "index_products" =>
              response.body.status = ReportedStatus(outcome)

\* the documents were accepted, their task failed, the answer is 200 "failed"
C22_Witness ==
    /\ api_pc = "done"
    /\ caller = "index_products"
    /\ task_info # NoHandle
    /\ outcome.kind = "returns"
    /\ outcome.status = "failed"
    /\ response.kind = "http"
    /\ response.code = 200
    /\ response.body.status = "failed"

\* the document tasks of a source
TasksOf(brand) == {i \in DocumentTasks : tasks[i].name = brand}

\* C23: every batch is submitted at most once (no two document tasks are the
\* same batch of the same source); a submitted batch of the source being
\* loaded is its slice of the product list, so that no position of the list
\* is in two submitted batches; nothing but document tasks follows a
\* document task and the log of submissions only grows (no roll back); and
\* in a run that reaches Done every batch of every loaded source has been
\* submitted exactly once and awaited.
C23_BatchSubmittedAtMostOnce ==
    /\ [](/\ \A i, j \in DocumentTasks :
                (tasks[i].name = tasks[j].name /\ tasks[i].batch_num = tasks[j].batch_num)
                    => i = j
          /\ \A i \in DocumentTasks : \A j \in DOMAIN tasks :
                i < j => tasks[j].kind = "documents"
          /\ Len(products) > 0 =>
                \A i \in TasksOf(SourceOf(products[1])) :
                    /\ (tasks[i].batch_num - 1) * BATCH_SIZE < Len(products)
                    /\ tasks[i].docs =
                          Ids(BatchSlice(products,
                                         (tasks[i].batch_num - 1) * BATCH_SIZE,
                                         BATCH_SIZE))
          /\ pc = "done" =>
                \A b \in DOMAIN brand_stats :
                    /\ {tasks[i].batch_num : i \in TasksOf(b)}
                          = 1..((brand_stats[b] + BATCH_SIZE - 1) \div BATCH_SIZE)
                    /\ \A i \in TasksOf(b) : tasks[i].waited = "returned")
    /\ [][/\ Len(tasks') >= Len(tasks)
          /\ \A i \in DOMAIN tasks :
                /\ tasks'[i].kind = tasks[i].kind
                /\ tasks'[i].name = tasks[i].name
                /\ tasks'[i].batch_num = tasks[i].batch_num
                /\ tasks'[i].docs = tasks[i].docs]_vars

\* a finished run in which a source was loaded in two batches, one product
\* each, and the last task of the run ended failed
C23_Witness ==
    /\ pc = "done"
    /\ last_status = "failed"
    /\ \E i, j \in DocumentTasks :
          /\ tasks[i].name = tasks[j].name
          /\ tasks[i].batch_num = 1
          /\ tasks[j].batch_num = 2
          /\ Len(tasks[i].docs) = 1
          /\ Len(tasks[j].docs) = 1

\* the row has an mpn, an empty primary material column and a non-empty
\* complete code column, and no cell of it is missing
NeedsFallback(brand, row) ==
    /\ \A c \in DOMAIN row : row[c] # None
    /\ Trimmed(row, DATA_FILES[brand].columns["mpn"]) # << >>
    /\ Trimmed(row, DATA_FILES[brand].columns["material"]) = << >>
    /\ Trimmed(row, CompleteTyreCode) # << >>

\* C24: for MRF and Eurogrip the complete code substitutes for material
\* before the required-field rejection: a row with an mpn, an empty material
\* column and a non-empty complete code is emitted with the complete code as
\* its material.
C24_FallbackBeforeRejection ==
    (Parsed /\ call.brand \in {"MRF", "Eurogrip"}) =>
        \A i \in DOMAIN call.file.rows :
            NeedsFallback(call.brand, call.file.rows[i]) =>
                \E k \in DOMAIN ret.value :
                    /\ ret.value[k].mpn =
                          Trimmed(call.file.rows[i], DATA_FILES[call.brand].columns["mpn"])
                    /\ ret.value[k].material =
                          Trimmed(call.file.rows[i], CompleteTyreCode)

\* the category the rule of C25 gives: brand, group and the plural of
\* record_type, each if present, with "Products" in the place of an absent
\* record_type; "Automotive Parts" alone when group and record_type are absent
ClaimedCategory(group, record_type, brand) ==
    IF ~Truthy(group) /\ ~Truthy(record_type)
    THEN <<"A", "u", "t", "o", "m", "o", "t", "i", "v", "e", " ",
           "P", "a", "r", "t", "s">>
    ELSE Join((IF Truthy(brand) THEN <<brand>> ELSE << >>)
              \o (IF Truthy(group) THEN <<group>> ELSE << >>)
              \o (IF ~Truthy(record_type)
                  THEN << <<"P", "r", "o", "d", "u", "c", "t", "s">> >>
                  ELSE IF EndsWith(record_type, "s") THEN <<record_type>>
                  ELSE <<record_type \o <<"s">> >>),
              <<" ">>)

\* C25: compute_category returns, for every combination of present and
\* absent brand, group and record_type, the brand, the group and the plural
\* of record_type joined by single spaces, "Products" standing for an absent
\* record_type, and exactly "Automotive Parts" when group and record_type
\* are both absent.
C25_CategoryByParts ==
    (call.fn = "compute_category" /\ ret.done) =>
        ret.value = ClaimedCategory(call.group, call.record_type, call.brand)

\* absent, empty or only whitespace
Blank(v) == ~Truthy(v) \/ ~Truthy(Strip(v))

\* the trimmed size as the first part of a title, if there is a size
SizePart(size) == IF Blank(size) THEN << >> ELSE <<Strip(size)>>

\* the material without the literal occurrences of the size
WithoutSize(material, size) ==
    IF Truthy(size) /\ Contains(size, material)
    THEN Strip(Replace(material, size, << >>))
    ELSE Strip(material)

C27_TagsLowerLongNoStopWord ==
    /\ \A b \in Range(Brands) : Lower(BrandChars[b]) \in common_words
    /\ Parsed =>
          \A k \in DOMAIN ret.value :
              \A t \in DOMAIN ret.value[k].tags :
                  LET tag == ret.value[k].tags[t]
                  IN  /\ tag = Lower(tag)
                      /\ Len(tag) >= 2
                      /\ tag \notin common_words
                      /\ tag # Lower(ret.value[k].brand)

\* a product with several tags, whose brand tag was among the raw tags and is
\* not among its tags
C27_Witness ==
    /\ Parsed
    /\ \E k \in DOMAIN ret.value :
          LET p == ret.value[k]
              raw == Range(RawTags(p.material, p.pattern_model, p.size, p.brand))
          IN  /\ Len(p.tags) > 1
              /\ Lower(p.brand) \in raw
              /\ Lower(p.brand) \notin Range(p.tags)

\* the product without its id
WithoutId(p) == [p EXCEPT !.id = << >>]

\* what the multi-source loader makes of the file of a call of
\* parse_apollo_data, with the Apollo schema, in the same process
MultiSourceProducts ==
    parse_brand_data("Apollo", call.file, DATA_FILES["Apollo"].columns, hash_seed)

\* C28: on every Apollo file the single-source loader and the multi-source
\* loader with the Apollo schema accept the same rows and emit, row by row,
\* products that are equal in every field but the id, which is the mpn in the
\* first and "APOLLO_" and the mpn in the second.
C28_LoadersDifferOnlyInId ==
    (call.fn = "parse_apollo_data" /\ ret.done) =>
        /\ Len(ret.value) = Len(MultiSourceProducts)
        /\ \A k \in DOMAIN ret.value :
              /\ ret.value[k].id = ret.value[k].mpn
              /\ MultiSourceProducts[k].id =
                    <<"A", "P", "O", "L", "L", "O", "_">> \o ret.value[k].mpn
              /\ WithoutId(ret.value[k]) = WithoutId(MultiSourceProducts[k])

\* the settings request was answered with the error of a rejected update
UpdateRejected ==
    /\ caller = "update_index_settings"
    /\ api_pc = "done"
    /\ response = Http500("update rejected")

\* C29: update_index_settings submits only attributes the request gives;
\* with none of its six attributes given it submits nothing and answers the
\* synthetic succeeded result "no_changes"; when the engine rejects the
\* update of an attribute the caller gets an error and no task result, the
\* updates of the given attributes before it have been applied and stay so
\* (the engine's log never loses or changes an entry), and no later
\* attribute is submitted.
C29_OnlyGivenNoRollback ==
    /\ [](/\ \A i \in DOMAIN engine_log : engine_log[i].name \in settings
          /\ (/\ caller = "update_index_settings"
              /\ api_pc = "done"
              /\ meili_client = "open"
              /\ settings \cap Range(SettingAttrs) = {}) =>
                  /\ engine_log = << >>
                  /\ response = Http200(TaskResponse("no_changes", "succeeded",
                                                     "settings_update",
                                                     [message |-> "No settings to update"]))
          /\ UpdateRejected =>
                  /\ "body" \notin DOMAIN response
                  /\ SettingAttrs[attr_idx] \in settings
                  /\ {engine_log[i].name : i \in DOMAIN engine_log}
                        = {a \in settings \cap Range(SettingAttrs) :
                              AttrPlace(a) < attr_idx}
                  /\ \A i \in DOMAIN engine_log : engine_log[i].waited)
    /\ [][/\ Len(engine_log') >= Len(engine_log)
          /\ \A i \in DOMAIN engine_log : engine_log'[i].name = engine_log[i].name
          /\ UpdateRejected => engine_log' = engine_log]_vars

\* the third of three given attributes was rejected; the two before it are
\* applied
C29_Witness ==
    /\ UpdateRejected
    /\ Cardinality(settings) = 3
    /\ Len(engine_log) = 2
    /\ SettingAttrs[attr_idx] \in settings

\* the sum of the counts of the sources in S
RECURSIVE SumOfCounts(_, _)
SumOfCounts(stats, S) ==
    IF S = {} THEN 0
    ELSE LET b == CHOOSE x \in S : TRUE
         IN  stats[b] + SumOfCounts(stats, S \ {b})

\* the number of documents in the batches of a source in a log of tasks
RECURSIVE SubmittedDocs(_, _)
SubmittedDocs(log, brand) ==
    IF Len(log) = 0 THEN 0
    ELSE SubmittedDocs(SubSeq(log, 1, Len(log) - 1), brand)
         + (IF log[Len(log)].kind = "documents" /\ log[Len(log)].name = brand
            THEN Len(log[Len(log)].docs) ELSE 0)

====
